---- MODULE Spec2Model ----
(***************************************************************************)
(* A model of the railway-image-service blob store (internal/app/keyval),  *)
(* its record codec, the access gate (mw.NewVerifyAccess) and the URL      *)
(* signer (client/sign).                                                   *)
(*                                                                         *)
(* Byte strings are sequences of one-character strings.  Every request is  *)
(* a goroutine; each action below is the code one goroutine runs between   *)
(* two suspension points (index call, file-system call, body read).       *)
(*                                                                         *)
(* Fault model: every index or file-system call whose error result the     *)
(* code inspects may fail (input `fault`); the body stream may break after *)
(* any number of bytes.  Index reads succeed in Spec (the case of a        *)
(* failing read is GetRecord's `err` argument).                            *)
(***************************************************************************)
EXTENDS Integers, Sequences, FiniteSets, TLC

VARIABLES
    db,        \* the LevelDB index: a partial function key -> record bytes
    fs,        \* the upload volume: a partial function path -> file bytes
    lock,      \* KeyVal.lock: the set of keys being written
    req,       \* the requests (goroutines), one record per slot
    hist,      \* per key, what the completed writes established (history)
    arrivals,  \* the number of requests that have arrived
    secretKey, \* the configured API secret (SECRET_KEY)
    softDelete,\* the configured soft-delete policy (Config.SoftDelete)
    now,       \* the wall clock, in milliseconds
    minted,    \* the signed URLs handed out by SignURL so far (history)
    gate,      \* the last decision of the access gate (history)
    codec,     \* the last record put through fromRecord and toRecord
    page,      \* the last list request and its response
    signed,    \* the last message put through Sign, with its variants
    serve,     \* the result cache of the pipeline and its last response
    fetch,     \* the HTTP loader: its configuration and the load in progress
    upload     \* the React SDK: one selected file and its upload

vars == <<db, fs, lock, req, hist, arrivals, secretKey, softDelete, now, minted, gate,
          codec, page, signed, serve, fetch, upload>>

-----------------------------------------------------------------------------
(* Bounds of the model. *)

NReq == 2            \* goroutines serving requests at the same time
MaxArrivals == 3     \* requests that arrive in one behaviour
MaxBodyLen == 4      \* longest upload body, in bytes
MaxMinted == 1       \* signed URLs minted in the gate specification
MaxMsgLen == 3       \* longest message handed to Sign on its own, in bytes
MaxRawLen == 3       \* longest free byte string handed to toRecord

(* Configuration (cmd/server/config.go).  The size cap is scaled down with *)
(* the bodies: bodies of maxFileSize - 1, maxFileSize and maxFileSize + 1  *)
(* bytes all occur.                                                        *)
maxFileSize == MaxBodyLen - 1

-----------------------------------------------------------------------------
(* Program constants. *)

NO == 0
SOFT == 1
HARD == 2
HashLen == 32
SniffLen == 512
HourMillis == 3600000
MAX_QUERY_LIMIT == 1000

StatusOK == 200
StatusCreated == 201
StatusNoContent == 204
StatusBadRequest == 400
StatusUnauthorized == 401
StatusForbidden == 403
StatusNotFound == 404
StatusConflict == 409
StatusLengthRequired == 411
StatusRequestEntityTooLarge == 413
StatusUnsupportedMediaType == 415
StatusInternalServerError == 500

-----------------------------------------------------------------------------
(* Byte-string helpers. *)

Min(a, b) == IF a < b THEN a ELSE b

HasPrefix(s, p) == Len(s) >= Len(p) /\ SubSeq(s, 1, Len(p)) = p

TrimPrefix(s, p) == IF HasPrefix(s, p) THEN SubSeq(s, Len(p) + 1, Len(s)) ELSE s

Take(s, n) == SubSeq(s, 1, Min(n, Len(s)))

RECURSIVE Flatten(_)
Flatten(ss) == IF ss = <<>> THEN <<>> ELSE Head(ss) \o Flatten(Tail(ss))

(* hex.EncodeToString / %x of one byte, for the bytes the model uses. *)
HexOfByte(c) ==
    CASE c = "a" -> <<"6", "1">>
      [] c = "b" -> <<"6", "2">>
      [] c = "I" -> <<"4", "9">>
      [] c = "x" -> <<"7", "8">>
      [] c = "y" -> <<"7", "9">>
      [] OTHER   -> <<"0", "0">>

HexEncode(s) == Flatten([i \in 1..Len(s) |-> HexOfByte(s[i])])

(* Stand-in for fmt.Sprintf("%x", md5.Sum(data)): 32 lowercase hex         *)
(* characters, a function of the bytes alone, injective on the byte        *)
(* strings of the model (up to 16 bytes); MD5 collisions are not modelled. *)
Md5Hex(data) ==
    LET hx == HexEncode(data)
    IN  [i \in 1..HashLen |-> IF i <= Len(hx) THEN hx[i] ELSE "0"]

-----------------------------------------------------------------------------
(* Record codec (package keyval, record.go). *)

DELETED == <<"D", "E", "L", "E", "T", "E", "D">>
HASH == <<"H", "A", "S", "H">>

Record(deleted, hash) == [Deleted |-> deleted, Hash |-> hash]

(* A decoder that cuts the hash one byte short. *)
toRecordShort(data) ==
    LET del == HasPrefix(data, DELETED)
        ss  == IF del THEN SubSeq(data, 8, Len(data)) ELSE data
    IN  [Deleted |-> IF del THEN SOFT ELSE NO,
         Hash |-> IF HasPrefix(ss, HASH) THEN SubSeq(ss, 5, 35) ELSE <<>>]

(* toRecord.  ss[4:36] panics when fewer than 36 bytes follow; the store   *)
(* only ever reads what fromRecord wrote, where that cannot happen.        *)
toRecord(data) ==
    LET del == HasPrefix(data, DELETED)
        ss  == IF del THEN SubSeq(data, 8, Len(data)) ELSE data
    IN  Record(IF del THEN SOFT ELSE NO,
               IF HasPrefix(ss, HASH) THEN SubSeq(ss, 5, 36) ELSE <<>>)

(* An encoder that leaves the tombstone out. *)
fromRecordNoTombstone(rec) ==
    IF Len(rec.Hash) = 32 THEN HASH \o rec.Hash ELSE <<>>

(* fromRecord; the error case (HARD) is the value "err". *)
fromRecordErr(rec) == rec.Deleted = HARD

fromRecord(rec) ==
    (IF rec.Deleted = SOFT THEN DELETED ELSE <<>>)
        \o (IF Len(rec.Hash) = 32 THEN HASH \o rec.Hash ELSE <<>>)

(* KeyToPath: /<md5[0]>/<md5[1]>/<hex(key)>. *)
KeyDir(key) ==
    LET m == Md5Hex(key)
    IN  <<"/", m[1], m[2], "/", m[3], m[4]>>

KeyToPath(key) == KeyDir(key) \o <<"/">> \o HexEncode(key)

-----------------------------------------------------------------------------
(* Decimal conversions: fmt.Sprintf("%d", n) and strconv.ParseInt(s, 10, 64) *)

Digits == <<"0", "1", "2", "3", "4", "5", "6", "7", "8", "9">>

DigitValue(c) == CHOOSE d \in 0..9 : Digits[d + 1] = c

IsDigit(c) == \E d \in 0..9 : Digits[d + 1] = c

RECURSIVE FormatNat(_)
FormatNat(n) == IF n < 10 THEN <<Digits[n + 1]>>
                ELSE FormatNat(n \div 10) \o <<Digits[(n % 10) + 1]>>

FormatInt(n) == IF n < 0 THEN <<"-">> \o FormatNat(0 - n) ELSE FormatNat(n)

RECURSIVE DigitsValue(_)
DigitsValue(s) == IF s = <<>> THEN 0
                  ELSE 10 * DigitsValue(SubSeq(s, 1, Len(s) - 1))
                       + DigitValue(s[Len(s)])

(* ParseInt accepts an optional sign followed by at least one digit (the   *)
(* 64-bit range is not reached by the values of the model).                *)
ParseIntOK(s) ==
    LET body == IF s # <<>> /\ s[1] \in {"+", "-"} THEN Tail(s) ELSE s
    IN  body # <<>> /\ \A i \in 1..Len(body) : IsDigit(body[i])

ParseInt(s) ==
    LET neg  == s # <<>> /\ s[1] = "-"
        body == IF s # <<>> /\ s[1] \in {"+", "-"} THEN Tail(s) ELSE s
    IN  IF neg THEN 0 - DigitsValue(body) ELSE DigitsValue(body)

-----------------------------------------------------------------------------
(* Signer (client/sign/sign.go) and access gate (internal/pkg/mw). *)

SLASH == <<"/">>
COLON == <<":">>
BlobPrefix == <<"/", "b", "l", "o", "b">>
ServePrefix == <<"/", "s", "e", "r", "v", "e">>
SignPrefix == <<"/", "s", "i", "g", "n">>

(* The two secrets of the configuration. *)
APISecret == <<"p", "w">>
SignSecret == <<"s", "k">>

(* Stand-in for base64url(HMAC-SHA256(secret, msg)): a function of the     *)
(* secret and the message alone, injective in both (secrets hold no "|");  *)
(* forging without the secret is not modelled.                             *)
HmacB64(secret, msg) == secret \o <<"|">> \o msg

(* A Sign that hashes the message as it comes. *)
SignUntrimmed(key, secret) == HmacB64(secret, key)

(* Sign: one leading "/" is trimmed from the message before it is hashed.  *)
Sign(key, secret) == HmacB64(secret, TrimPrefix(key, SLASH))

(* hmacSigner.Sign (internal/app/imagor): the pipeline's signer, which     *)
(* hashes the path as it is handed over and cuts the result to `truncate`  *)
(* characters when truncate > 0.  New builds it with truncate 0.           *)
SignerTruncate == 0

hmacSignerSign(secret, truncate, path) ==
    LET sig == HmacB64(secret, path)
    IN  IF truncate > 0 /\ Len(sig) > truncate THEN SubSeq(sig, 1, truncate)
        ELSE sig

(* The pipeline's check of a signed request: the signature segment against *)
(* the signer's result for the operation path, which the pipeline's parser *)
(* yields without the slashes in front of it.                              *)
PipelineAccepts(hash, path, secret) ==
    hash = hmacSignerSign(secret, SignerTruncate, path)

(* A SignURL that signs a /serve path with the "/serve" still on it. *)
SignURLWholePath(path, secret, t) ==
    LET p        == TrimPrefix(path, SignPrefix)
        expireAt == t + HourMillis
    IN  IF ~HasPrefix(p, BlobPrefix) /\ ~HasPrefix(p, ServePrefix)
        THEN [ok |-> FALSE, path |-> p, expire |-> <<>>, signature |-> <<>>]
        ELSE IF HasPrefix(p, BlobPrefix)
        THEN [ok |-> TRUE, path |-> p, expire |-> FormatInt(expireAt),
              signature |-> Sign(p \o COLON \o FormatInt(expireAt), secret)]
        ELSE [ok |-> TRUE, path |-> p, expire |-> <<>>,
              signature |-> Sign(p, secret)]

(* SignURL at time t: the signed URL as (path, x-expire, x-signature), or  *)
(* ok = FALSE for "invalid path".  An empty x-expire means the parameter   *)
(* is not attached.                                                        *)
SignURL(path, secret, t) ==
    LET p        == TrimPrefix(path, SignPrefix)
        expireAt == t + HourMillis
    IN  IF ~HasPrefix(p, BlobPrefix) /\ ~HasPrefix(p, ServePrefix)
        THEN [ok |-> FALSE, path |-> p, expire |-> <<>>, signature |-> <<>>]
        ELSE IF HasPrefix(p, BlobPrefix)
        THEN [ok |-> TRUE, path |-> p, expire |-> FormatInt(expireAt),
              signature |-> Sign(p \o COLON \o FormatInt(expireAt), secret)]
        ELSE [ok |-> TRUE, path |-> p, expire |-> <<>>,
              signature |-> Sign(TrimPrefix(p, ServePrefix), secret)]

(* A gate that treats the expiry instant itself as expired, and a gate    *)
(* that signs the parsed expiry instead of the bytes it received.          *)
VerifyAccessStrict(secret, signSecret, path, apiKey, signature, expireAt, t) ==
    LET hasValidAPIKey == apiKey = secret
        checked == signature # <<>> /\ expireAt # <<>>
        signatureB == Sign(path \o COLON \o expireAt, signSecret)
        hasValidSignature == checked /\ signature = signatureB
    IN  IF checked /\ ~ParseIntOK(expireAt) THEN StatusBadRequest
        ELSE IF checked /\ t >= ParseInt(expireAt) THEN StatusUnauthorized
        ELSE IF ~hasValidAPIKey /\ ~hasValidSignature THEN StatusUnauthorized
        ELSE 0

VerifyAccessCanon(secret, signSecret, path, apiKey, signature, expireAt, t) ==
    LET hasValidAPIKey == apiKey = secret
        checked == signature # <<>> /\ expireAt # <<>>
        signatureB == IF ParseIntOK(expireAt)
                      THEN Sign(path \o COLON \o FormatInt(ParseInt(expireAt)),
                                signSecret)
                      ELSE <<>>
        hasValidSignature == checked /\ signature = signatureB
    IN  IF checked /\ ~ParseIntOK(expireAt) THEN StatusBadRequest
        ELSE IF checked /\ t > ParseInt(expireAt) THEN StatusUnauthorized
        ELSE IF ~hasValidAPIKey /\ ~hasValidSignature THEN StatusUnauthorized
        ELSE 0

(* NewVerifyAccess: the status the middleware answers with, or 0 when it   *)
(* calls c.Next().  apiKey, signature and expireAt are <<>> when the       *)
(* header or query parameter is absent (c.Get and c.Query return "").      *)
VerifyAccess(secret, signSecret, path, apiKey, signature, expireAt, t) ==
    LET hasValidAPIKey == apiKey = secret
        checked == signature # <<>> /\ expireAt # <<>>
        signatureB == Sign(path \o COLON \o expireAt, signSecret)
        hasValidSignature == checked /\ signature = signatureB
    IN  IF checked /\ ~ParseIntOK(expireAt) THEN StatusBadRequest
        ELSE IF checked /\ t > ParseInt(expireAt) THEN StatusUnauthorized
        ELSE IF ~hasValidAPIKey /\ ~hasValidSignature THEN StatusUnauthorized
        ELSE 0

-----------------------------------------------------------------------------
(* The blob store (internal/app/keyval). *)

Keys == {<<"a">>, <<"b">>}

(* Upload bodies: "I" stands for the magic number of an allowed image      *)
(* type; bodies of every length up to MaxBodyLen, and one that is no image *)
Body(n) == [i \in 1..n |-> IF i = 1 THEN "I" ELSE "x"]

Bodies == {Body(n) : n \in 0..MaxBodyLen} \cup {<<"x">>}

Reqs == 1..NReq

ImagePng == <<"i", "m", "a", "g", "e", "/", "p", "n", "g">>
TextPlain == <<"t", "e", "x", "t", "/", "p", "l", "a", "i", "n">>
allowedMimeTypes == {<<"i", "m", "a", "g", "e", "/">>}

(* mimetype.Detect on the sniffed prefix. *)
DetectMime(prefix) ==
    IF prefix # <<>> /\ prefix[1] = "I" THEN ImagePng ELSE TextPlain

validType(prefix) ==
    \E allowed \in allowedMimeTypes : HasPrefix(DetectMime(prefix), allowed)

(* Partial functions: the index and the volume. *)
Put(f, x, v) == [y \in DOMAIN f \cup {x} |-> IF y = x THEN v ELSE f[y]]
Del(f, x) == [y \in DOMAIN f \ {x} |-> f[y]]

(* db.Get: the stored bytes and the error. *)
DbGet(key) ==
    IF key \in DOMAIN db THEN [data |-> db[key], err |-> "nil"]
    ELSE [data |-> <<>>, err |-> "ErrNotFound"]

(* GetRecord's decision on the result of db.Get. *)
RecordOf(data, err) ==
    IF err # "ErrNotFound" THEN toRecord(data) ELSE Record(HARD, <<>>)

GetRecord(key) == RecordOf(DbGet(key).data, DbGet(key).err)

(* PutRecord's effect on the index when db.Put succeeds. *)
PutRecord(key, rec) == Put(db, key, fromRecord(rec))

(* A lock that is never refused, and a lock that is one for all keys. *)
LockKeyAlways(key) == TRUE
LockKeyGlobal(key) == lock = {}

(* LockKey's result; when TRUE the key has been inserted in k.lock. *)
LockKey(key) == key \notin lock

(* os.CreateTemp(dir, "tmp-*"): a fresh name in the key's directory, one   *)
(* per goroutine.                                                          *)
TmpName(r, key) == KeyDir(key) \o <<"/", "t", "m", "p", "-", Digits[r + 1]>>

IdleReq ==
    [pc |-> "idle", m |-> "", k |-> <<>>, body |-> <<>>, unlink |-> FALSE,
     status |-> 0, recordNotFound |-> FALSE, n |-> 0, broken |-> FALSE,
     hash |-> <<>>, rbody |-> <<>>, rmd5 |-> <<>>,
     \* history: what the request found and what happened around it
     behind |-> FALSE,     \* it arrived while a writer of its key was in flight
                           \* (a read: or a writer took the lock meanwhile)
     rejected |-> FALSE,   \* a request on its key was turned away meanwhile
     rejectedBody |-> <<>>,  \* ... and the body that request carried
     hadRec |-> FALSE, pre |-> <<>>,       \* the key's record when it began
     hadFile |-> FALSE, preFile |-> <<>>,  \* the key's blob file when it began
     clean |-> FALSE,      \* no writer of its key since the last settled write
     gone |-> FALSE,       \* the key was deleted and no PUT succeeded since
     may |-> {}]           \* a read: the body last stored under its key when it
                           \* began, and the bodies of the PUTs in flight since

(* Per key: the outcome of the last write (if no writer of the key has     *)
(* taken the lock since), whether the key was hard-deleted with no         *)
(* successful PUT since, and the body of the last PUT answered 201.        *)
NoHist == [last |-> "none", body |-> <<>>, deleted |-> FALSE, stored |-> {}]

Writers(key) ==
    {q \in Reqs : req[q].k = key /\ req[q].m \in {"PUT", "DELETE"}
                  /\ req[q].pc \notin {"idle", "done"}}

Readers(key) ==
    {q \in Reqs : req[q].k = key /\ req[q].m \in {"GET", "HEAD"}
                  /\ req[q].pc \notin {"idle", "done"}}

(* A finished request leaves its slot before anything else happens: its    *)
(* response is on the wire and it touches nothing any more.                *)
NoneDone == \A q \in Reqs : req[q].pc # "done"

NoGate == [kind |-> "none", method |-> "", path |-> <<>>, query |-> <<>>,
           apiKey |-> <<>>, signature |-> <<>>,
           expireAt |-> <<>>, at |-> 0, result |-> 0]

NoCodec == [kind |-> "none", rec |-> Record(NO, <<>>), err |-> FALSE,
            data |-> <<>>, back |-> Record(NO, <<>>)]

NoSigned == [kind |-> "none", key |-> <<>>, secret |-> <<>>, plain |-> <<>>,
             slashed |-> <<>>, twice |-> <<>>, url |-> <<>>, expire |-> <<>>,
             verifier |-> <<>>, accepted |-> FALSE]

(* No response, and the pipeline with an empty result cache. *)
NoServed == [kind |-> "none", image |-> <<>>, err |-> "nil", src |-> <<>>,
             cached |-> FALSE, rec |-> Record(HARD, <<>>)]

NoServe == [cache |-> <<>>, last |-> NoServed]

(* The HTTP loader before any load: raw is SERVE_ALLOWED_HTTP_SOURCES, max *)
(* is MaxAllowedSize, sent is the set of requests that left the client,    *)
(* via counts the requests of the client call in progress, followed the    *)
(* redirects it followed.                                                  *)
NoFetch == [raw |-> <<>>, max |-> 0, pc |-> "idle", origin |-> <<>>,
            target |-> <<>>, via |-> 0, followed |-> 0, sent |-> {},
            headStatus |-> 0, headLen |-> 0, status |-> 0, err |-> "nil"]

(* A selected file as createSelectedFile makes it, and no call of          *)
(* uploadFile yet.  aborted is abortController.signal.aborted, handle      *)
(* says that handleAbortSignal listens to the signal; cut, putAfter and    *)
(* calledAfter are history: the abort callback was invoked while the       *)
(* status was idle, queued or uploading, and a PUT was sent, onSuccess or  *)
(* onError called, after that.                                             *)
NoUpload == [tooLarge |-> FALSE, status |-> "idle", aborted |-> FALSE,
             handle |-> FALSE, pc |-> "none", calls |-> 0, aborts |-> 0,
             puts |-> 0, onSuccess |-> FALSE, onError |-> FALSE,
             onAbort |-> FALSE, cut |-> FALSE, putAfter |-> FALSE,
             calledAfter |-> FALSE]

NoPage == [kind |-> "none", prefix |-> <<>>, start |-> <<>>, qlimit |-> <<>>,
           unlinked |-> FALSE, status |-> 0, keys |-> <<>>, next |-> <<>>,
           hasMore |-> FALSE, nextPage |-> <<>>, nextPath |-> <<>>,
           nextExpire |-> <<>>,
           \* history of the walk along the cursors
           first |-> TRUE, start0 |-> <<>>, seen |-> <<>>]

Init ==
    /\ db = <<>>
    /\ fs = <<>>
    /\ lock = {}
    /\ req = [r \in Reqs |-> IdleReq]
    /\ hist = [k \in Keys |-> NoHist]
    /\ arrivals = 0
    /\ secretKey = APISecret
    /\ softDelete \in BOOLEAN
    /\ now = 0
    /\ minted = {}
    /\ gate = NoGate
    /\ codec = NoCodec
    /\ page = NoPage
    /\ signed = NoSigned
    /\ serve = NoServe
    /\ fetch = NoFetch
    /\ upload = NoUpload

gateVars == <<secretKey, now, minted, gate>>

probeVars == <<codec, page, signed, serve, fetch, upload>>

storeRest == <<arrivals, softDelete, gateVars, probeVars>>

(* ServeHTTP up to the switch: a PUT or DELETE takes the key's lock or is  *)
(* answered Conflict; GET and HEAD go on without it.                       *)
Start(r, m, key, body, unlink) ==
    /\ NoneDone
    /\ req[r].pc = "idle"
    /\ \A q \in Reqs : q < r => req[q].pc # "idle"
    /\ arrivals < MaxArrivals
    /\ arrivals' = arrivals + 1
    /\ LET fp   == KeyToPath(key)
           base == [IdleReq EXCEPT !.m = m, !.k = key, !.body = body,
                                   !.unlink = unlink,
                                   !.behind = Writers(key) # {},
                                   !.hadRec = key \in DOMAIN db,
                                   !.pre = DbGet(key).data,
                                   !.hadFile = fp \in DOMAIN fs,
                                   !.preFile = IF fp \in DOMAIN fs THEN fs[fp]
                                               ELSE <<>>]
       IN  IF m \in {"PUT", "DELETE"}
           THEN IF ~LockKey(key)
                THEN /\ req' = [q \in Reqs |->
                            IF q = r
                            THEN [base EXCEPT !.pc = "done",
                                              !.status = StatusConflict]
                            ELSE IF q \in Writers(key)
                            THEN [req[q] EXCEPT !.rejected = TRUE,
                                                !.rejectedBody = body]
                            ELSE req[q]]
                     /\ UNCHANGED <<lock, hist>>
                ELSE /\ lock' = lock \cup {key}
                     /\ req' = [q \in Reqs |->
                            IF q = r
                            THEN [base EXCEPT !.pc = IF m = "PUT" THEN "put"
                                                     ELSE "delete"]
                            ELSE IF q \in Readers(key)
                            THEN [req[q] EXCEPT
                                     !.clean = FALSE, !.behind = TRUE,
                                     !.may = IF m = "PUT" THEN @ \cup {body}
                                             ELSE @]
                            ELSE req[q]]
                     /\ hist' = [hist EXCEPT ![key].last = "none",
                                             ![key].body = <<>>]
           ELSE /\ req' = [req EXCEPT ![r] =
                       [base EXCEPT !.pc = "get_rec",
                                    !.clean = hist[key].last # "none",
                                    !.gone = hist[key].deleted,
                                    !.may = hist[key].stored \cup
                                        {req[q].body : q \in
                                            {w \in Writers(key) :
                                                req[w].m = "PUT"}}]]
                /\ UNCHANGED <<lock, hist>>
    /\ UNCHANGED <<db, fs, softDelete, gateVars, probeVars>>

(* The response is written and the goroutine ends. *)
Finish(r) ==
    /\ req[r].pc = "done"
    /\ req' = [req EXCEPT ![r] = IdleReq]
    /\ UNCHANGED <<db, fs, lock, hist, storeRest>>

(* A return that skips the deferred unlock on the error paths. *)
ReturnErrorKeepsLock(r, status) ==
    [req[r] EXCEPT !.pc = IF status >= StatusBadRequest THEN "done"
                          ELSE "unlock",
                   !.status = status]

(* Write or Delete has returned; the deferred UnlockKey is still to run. *)
Return(r, status) == [req[r] EXCEPT !.pc = "unlock", !.status = status]

(* Write's deferred calls on a return without success: os.Remove of the    *)
(* temp file, and db.Delete of the reservation if the key had no record.   *)
RemoveTemp(r) == Del(fs, TmpName(r, req[r].k))

(* A return path that forgets the reservation. *)
RollbackNever(r) == db

Rollback(r) == IF req[r].recordNotFound THEN Del(db, req[r].k) ELSE db

(* case PUT of ServeHTTP and Write up to the reservation. *)
WriteReserve(r, fault) ==
    /\ NoneDone
    /\ req[r].pc = "put"
    /\ LET key == req[r].k
           valueLen == Len(req[r].body)
           recordNotFound == GetRecord(key).Deleted = HARD
           seen == [req[r] EXCEPT !.recordNotFound = recordNotFound]
       IN  IF valueLen = 0
           THEN /\ req' = [req EXCEPT ![r] = Return(r, StatusLengthRequired)]
                /\ UNCHANGED db
           ELSE IF valueLen > maxFileSize
           THEN /\ req' = [req EXCEPT ![r] = Return(r, StatusRequestEntityTooLarge)]
                /\ UNCHANGED db
           ELSE IF recordNotFound /\ fault
           THEN /\ req' = [req EXCEPT ![r] =
                       [seen EXCEPT !.pc = "unlock", !.recordNotFound = FALSE,
                                    !.status = StatusInternalServerError]]
                /\ UNCHANGED db
           ELSE /\ db' = IF recordNotFound THEN PutRecord(key, Record(SOFT, <<>>))
                         ELSE db
                /\ req' = [req EXCEPT ![r] =
                       [seen EXCEPT !.pc = "mktemp"]]
    /\ UNCHANGED <<fs, lock, hist, storeRest>>

(* os.MkdirAll and os.CreateTemp. *)
WriteCreateTemp(r, fault) ==
    /\ NoneDone
    /\ req[r].pc = "mktemp"
    /\ IF fault
       THEN /\ req' = [req EXCEPT ![r] = Return(r, StatusInternalServerError)]
            /\ db' = Rollback(r)
            /\ UNCHANGED fs
       ELSE /\ fs' = Put(fs, TmpName(r, req[r].k), <<>>)
            /\ req' = [req EXCEPT ![r].pc = "sniff"]
            /\ UNCHANGED db
    /\ UNCHANGED <<lock, hist, storeRest>>

(* io.ReadFull of the first 512 bytes (its error is dropped) and the mime  *)
(* check.  The stream delivers `got` bytes; fewer than it holds when the   *)
(* upload breaks or is cancelled.                                          *)
WriteSniff(r, got) ==
    /\ NoneDone
    /\ req[r].pc = "sniff"
    /\ LET avail == Take(Take(req[r].body, maxFileSize + 1), SniffLen)
           prefix == Take(avail, got)
       IN  /\ got \in 0..Len(avail)
           /\ IF Len(prefix) = 0
              THEN /\ req' = [req EXCEPT ![r] = Return(r, StatusBadRequest)]
                   /\ fs' = RemoveTemp(r)
                   /\ db' = Rollback(r)
              ELSE IF ~validType(prefix)
              THEN /\ req' = [req EXCEPT ![r] = Return(r, StatusUnsupportedMediaType)]
                   /\ fs' = RemoveTemp(r)
                   /\ db' = Rollback(r)
              ELSE /\ req' = [req EXCEPT ![r].pc = "copy", ![r].n = got,
                                         ![r].broken = got < Len(avail)]
                   /\ UNCHANGED <<db, fs>>
    /\ UNCHANGED <<lock, hist, storeRest>>

(* io.CopyBuffer of the prefix and the rest of the stream into the temp    *)
(* file, the size check, and the hash.                                     *)
WriteCopy(r, fault) ==
    /\ NoneDone
    /\ req[r].pc = "copy"
    /\ LET data == Take(req[r].body, maxFileSize + 1)
           written == Len(data)
       IN  IF req[r].broken \/ fault
           THEN /\ req' = [req EXCEPT ![r] = Return(r, StatusInternalServerError)]
                /\ fs' = RemoveTemp(r)
                /\ db' = Rollback(r)
           ELSE IF written >= maxFileSize
           THEN /\ req' = [req EXCEPT ![r] = Return(r, StatusRequestEntityTooLarge)]
                /\ fs' = RemoveTemp(r)
                /\ db' = Rollback(r)
           ELSE /\ fs' = Put(fs, TmpName(r, req[r].k), data)
                /\ req' = [req EXCEPT ![r].pc = "sync", ![r].hash = Md5Hex(data)]
                /\ UNCHANGED db
    /\ UNCHANGED <<lock, hist, storeRest>>

(* tmpFile.Sync and tmpFile.Close. *)
WriteSync(r, fault) ==
    /\ NoneDone
    /\ req[r].pc = "sync"
    /\ IF fault
       THEN /\ req' = [req EXCEPT ![r] = Return(r, StatusInternalServerError)]
            /\ fs' = RemoveTemp(r)
            /\ db' = Rollback(r)
       ELSE /\ req' = [req EXCEPT ![r].pc = "rename"]
            /\ UNCHANGED <<db, fs>>
    /\ UNCHANGED <<lock, hist, storeRest>>

(* A rename that also publishes the LIVE record, before the file is in     *)
(* place.                                                                  *)
WriteRenameWithRecord(r, fault) ==
    /\ NoneDone
    /\ req[r].pc = "rename"
    /\ LET tmp == TmpName(r, req[r].k)
           fp  == KeyToPath(req[r].k)
       IN  IF fault
           THEN /\ req' = [req EXCEPT ![r] = Return(r, StatusInternalServerError)]
                /\ fs' = RemoveTemp(r)
                /\ db' = Rollback(r)
           ELSE /\ fs' = Put(Del(fs, tmp), fp, fs[tmp])
                /\ req' = [req EXCEPT ![r].pc = "putrec"]
                /\ db' = PutRecord(req[r].k, Record(NO, req[r].hash))
    /\ UNCHANGED <<lock, hist, storeRest>>

(* os.Rename of the temp file to the key's path. *)
WriteRename(r, fault) ==
    /\ NoneDone
    /\ req[r].pc = "rename"
    /\ LET tmp == TmpName(r, req[r].k)
           fp  == KeyToPath(req[r].k)
       IN  IF fault
           THEN /\ req' = [req EXCEPT ![r] = Return(r, StatusInternalServerError)]
                /\ fs' = RemoveTemp(r)
                /\ db' = Rollback(r)
           ELSE /\ fs' = Put(Del(fs, tmp), fp, fs[tmp])
                /\ req' = [req EXCEPT ![r].pc = "putrec"]
                /\ UNCHANGED db
    /\ UNCHANGED <<lock, hist, storeRest>>

(* PutRecord(key, Record{NO, hash}) and the return of Write. *)
WritePutRecord(r, fault) ==
    /\ NoneDone
    /\ req[r].pc = "putrec"
    /\ LET key == req[r].k
       IN  IF fault
           THEN /\ req' = [req EXCEPT ![r] = Return(r, StatusInternalServerError)]
                /\ db' = Rollback(r)
                /\ UNCHANGED hist
           ELSE /\ db' = PutRecord(key, Record(NO, req[r].hash))
                /\ req' = [q \in Reqs |->
                       IF q = r THEN Return(r, StatusCreated)
                       ELSE IF q \in Readers(key)
                       THEN [req[q] EXCEPT !.gone = FALSE]
                       ELSE req[q]]
                /\ hist' = [hist EXCEPT ![key] =
                       [last |-> "put", body |-> req[r].body, deleted |-> FALSE,
                        stored |-> {req[r].body}]]
    /\ fs' = RemoveTemp(r)
    /\ UNCHANGED <<lock, storeRest>>

(* A Delete without the soft-delete policy check. *)
DeleteMarkNoPolicy(r, fault) ==
    /\ NoneDone
    /\ req[r].pc = "delete"
    /\ LET key == req[r].k
           unlink == req[r].unlink
           rec == GetRecord(key)
       IN  IF rec.Deleted = HARD \/ (unlink /\ rec.Deleted = SOFT)
           THEN /\ req' = [req EXCEPT ![r] = Return(r, StatusNotFound)]
                /\ UNCHANGED <<db, hist>>
           ELSE IF fault
           THEN /\ req' = [req EXCEPT ![r] = Return(r, StatusInternalServerError)]
                /\ UNCHANGED <<db, hist>>
           ELSE /\ db' = PutRecord(key, Record(SOFT, rec.Hash))
                /\ IF unlink
                   THEN /\ req' = [req EXCEPT ![r] = Return(r, StatusNoContent)]
                        /\ hist' = [hist EXCEPT ![key].last = "unlink"]
                   ELSE /\ req' = [req EXCEPT ![r].pc = "remove"]
                        /\ UNCHANGED hist
    /\ UNCHANGED <<fs, lock, storeRest>>

(* A Delete whose unlink removes the blob file as well. *)
DeleteMarkUnlinkRemoves(r, fault) ==
    /\ NoneDone
    /\ req[r].pc = "delete"
    /\ LET key == req[r].k
           unlink == req[r].unlink
           rec == GetRecord(key)
       IN  IF rec.Deleted = HARD \/ (unlink /\ rec.Deleted = SOFT)
           THEN /\ req' = [req EXCEPT ![r] = Return(r, StatusNotFound)]
                /\ UNCHANGED <<db, fs, hist>>
           ELSE IF ~unlink /\ softDelete /\ rec.Deleted = NO
           THEN /\ req' = [req EXCEPT ![r] = Return(r, StatusForbidden)]
                /\ UNCHANGED <<db, fs, hist>>
           ELSE IF fault
           THEN /\ req' = [req EXCEPT ![r] = Return(r, StatusInternalServerError)]
                /\ UNCHANGED <<db, fs, hist>>
           ELSE /\ db' = PutRecord(key, Record(SOFT, rec.Hash))
                /\ IF unlink
                   THEN /\ req' = [req EXCEPT ![r] = Return(r, StatusNoContent)]
                        /\ fs' = Del(fs, KeyToPath(key))
                        /\ hist' = [hist EXCEPT ![key].last = "unlink"]
                   ELSE /\ req' = [req EXCEPT ![r].pc = "remove"]
                        /\ UNCHANGED <<fs, hist>>
    /\ UNCHANGED <<lock, storeRest>>

(* Delete up to the tombstone. *)
DeleteMark(r, fault) ==
    /\ NoneDone
    /\ req[r].pc = "delete"
    /\ LET key == req[r].k
           unlink == req[r].unlink
           rec == GetRecord(key)
           seen == req[r]
       IN  IF rec.Deleted = HARD \/ (unlink /\ rec.Deleted = SOFT)
           THEN /\ req' = [req EXCEPT ![r] =
                       [seen EXCEPT !.pc = "unlock", !.status = StatusNotFound]]
                /\ UNCHANGED <<db, hist>>
           ELSE IF ~unlink /\ softDelete /\ rec.Deleted = NO
           THEN /\ req' = [req EXCEPT ![r] =
                       [seen EXCEPT !.pc = "unlock", !.status = StatusForbidden]]
                /\ UNCHANGED <<db, hist>>
           ELSE IF fault
           THEN /\ req' = [req EXCEPT ![r] =
                       [seen EXCEPT !.pc = "unlock",
                                    !.status = StatusInternalServerError]]
                /\ UNCHANGED <<db, hist>>
           ELSE /\ db' = PutRecord(key, Record(SOFT, rec.Hash))
                /\ IF unlink
                   THEN /\ req' = [req EXCEPT ![r] =
                               [seen EXCEPT !.pc = "unlock",
                                            !.status = StatusNoContent]]
                        /\ hist' = [hist EXCEPT ![key].last = "unlink"]
                   ELSE /\ req' = [req EXCEPT ![r] =
                               [seen EXCEPT !.pc = "remove"]]
                        /\ UNCHANGED hist
    /\ UNCHANGED <<fs, lock, storeRest>>

(* os.Remove of the blob file (it fails when the file is missing). *)
DeleteRemove(r, fault) ==
    /\ NoneDone
    /\ req[r].pc = "remove"
    /\ LET fp == KeyToPath(req[r].k)
       IN  IF fp \notin DOMAIN fs \/ fault
           THEN /\ req' = [req EXCEPT ![r] = Return(r, StatusInternalServerError)]
                /\ UNCHANGED fs
           ELSE /\ fs' = Del(fs, fp)
                /\ req' = [req EXCEPT ![r].pc = "dbdelete"]
    /\ UNCHANGED <<db, lock, hist, storeRest>>

(* A Delete that returns before db.Delete. *)
DeleteRecordSkip(r) ==
    /\ NoneDone
    /\ req[r].pc = "dbdelete"
    /\ req' = [req EXCEPT ![r] = Return(r, StatusNoContent)]
    /\ hist' = [hist EXCEPT ![req[r].k] =
           [last |-> "del", body |-> <<>>, deleted |-> TRUE,
            stored |-> hist[req[r].k].stored]]
    /\ UNCHANGED <<db, fs, lock, storeRest>>

(* db.Delete of the record and the return of Delete. *)
DeleteRecord(r) ==
    /\ NoneDone
    /\ req[r].pc = "dbdelete"
    /\ db' = Del(db, req[r].k)
    /\ req' = [req EXCEPT ![r] = Return(r, StatusNoContent)]
    /\ hist' = [hist EXCEPT ![req[r].k] =
           [last |-> "del", body |-> <<>>, deleted |-> TRUE,
            stored |-> hist[req[r].k].stored]]
    /\ UNCHANGED <<fs, lock, storeRest>>

(* The deferred UnlockKey of ServeHTTP. *)
UnlockKey(r) ==
    /\ NoneDone
    /\ req[r].pc = "unlock"
    /\ lock' = lock \ {req[r].k}
    /\ req' = [req EXCEPT ![r].pc = "done"]
    /\ UNCHANGED <<db, fs, hist, storeRest>>

(* case GET, HEAD of ServeHTTP: the record, the Content-Md5 header. *)
ReadRecord(r) ==
    /\ NoneDone
    /\ req[r].pc = "get_rec"
    /\ LET rec == GetRecord(req[r].k)
           hdr == [req[r] EXCEPT !.rmd5 = rec.Hash]
       IN  IF rec.Deleted = SOFT \/ rec.Deleted = HARD
           THEN req' = [req EXCEPT ![r] =
                    [hdr EXCEPT !.pc = "done", !.status = StatusNotFound]]
           ELSE req' = [req EXCEPT ![r] = [hdr EXCEPT !.pc = "get_stat"]]
    /\ UNCHANGED <<db, fs, lock, hist, storeRest>>

(* os.Stat of the blob file. *)
ReadStat(r) ==
    /\ NoneDone
    /\ req[r].pc = "get_stat"
    /\ IF KeyToPath(req[r].k) \notin DOMAIN fs
       THEN req' = [req EXCEPT ![r].pc = "done", ![r].status = StatusNotFound]
       ELSE req' = [req EXCEPT ![r].status = StatusOK,
                               ![r].pc = IF req[r].m = "GET" THEN "get_send"
                                         ELSE "done"]
    /\ UNCHANGED <<db, fs, lock, hist, storeRest>>

(* c.SendFile: the body is the file's bytes when it is opened; when the    *)
(* file is no longer there the file handler answers 404 (the error that    *)
(* SendFile returns is dropped).                                           *)
ReadSend(r) ==
    /\ NoneDone
    /\ req[r].pc = "get_send"
    /\ LET fp == KeyToPath(req[r].k)
       IN  IF fp \in DOMAIN fs
           THEN req' = [req EXCEPT ![r].pc = "done", ![r].rbody = fs[fp]]
           ELSE req' = [req EXCEPT ![r].pc = "done",
                                   ![r].status = StatusNotFound]
    /\ UNCHANGED <<db, fs, lock, hist, storeRest>>

Next ==
    \/ \E r \in Reqs, key \in Keys :
          \/ \E body \in Bodies : Start(r, "PUT", key, body, FALSE)
          \/ \E unlink \in BOOLEAN : Start(r, "DELETE", key, <<>>, unlink)
          \/ \E m \in {"GET", "HEAD"} : Start(r, m, key, <<>>, FALSE)
    \/ \E r \in Reqs, fault \in BOOLEAN :
          \/ WriteReserve(r, fault)
          \/ WriteCreateTemp(r, fault)
          \/ WriteCopy(r, fault)
          \/ WriteSync(r, fault)
          \/ WriteRename(r, fault)
          \/ WritePutRecord(r, fault)
          \/ DeleteMark(r, fault)
          \/ DeleteRemove(r, fault)
    \/ \E r \in Reqs, got \in 0..MaxBodyLen : WriteSniff(r, got)
    \/ \E r \in Reqs :
          \/ DeleteRecord(r)
          \/ UnlockKey(r)
          \/ Finish(r)
          \/ ReadRecord(r)
          \/ ReadStat(r)
          \/ ReadSend(r)

Spec == Init /\ [][Next]_vars

(* The store as it is once PUT of a one-byte image on key "a" has been     *)
(* answered 201 and no request is in flight.                               *)
StoredKey == <<"a">>

InitStored ==
    /\ db = Put(<<>>, StoredKey, fromRecord(Record(NO, Md5Hex(Body(1)))))
    /\ fs = Put(<<>>, KeyToPath(StoredKey), Body(1))
    /\ lock = {}
    /\ req = [r \in Reqs |-> IdleReq]
    /\ hist = [k \in Keys |->
                 IF k = StoredKey
                 THEN [last |-> "put", body |-> Body(1), deleted |-> FALSE,
                       stored |-> {Body(1)}]
                 ELSE NoHist]
    /\ arrivals = 0
    /\ secretKey = APISecret
    /\ softDelete \in BOOLEAN
    /\ now = 0
    /\ minted = {}
    /\ gate = NoGate
    /\ codec = NoCodec
    /\ page = NoPage
    /\ signed = NoSigned
    /\ serve = NoServe
    /\ fetch = NoFetch
    /\ upload = NoUpload

SpecStored == InitStored /\ [][Next]_vars

-----------------------------------------------------------------------------
(* The access gate in front of the blob store and the /sign endpoint.      *)

BadKey == <<"n", "o">>
Garbage == <<"z">>

PathA == BlobPrefix \o <<"/", "a">>
PathA1 == BlobPrefix \o <<"/", "a", ":", "1">>

AccessPaths == {PathA, PathA1}

SignPaths ==
    {SignPrefix \o PathA, SignPrefix \o PathA1,
     SignPrefix \o ServePrefix \o PathA,
     SignPrefix \o <<"/", "f", "i", "l", "e", "s", "/", "a">>}

(* NewVerifyAPIKey, in front of /sign. *)
VerifyAPIKey(secret, apiKey) ==
    IF apiKey # secret THEN StatusUnauthorized ELSE 0

BlobMinted == {u \in minted : HasPrefix(u.path, BlobPrefix)}

(* The x-expire values a request may carry: none, one that does not parse, *)
(* a minted one, and a minted one altered (a leading zero, one millisecond *)
(* later, bytes moved over from the path).                                 *)
ExpireValues ==
    {<<>>, Garbage}
    \cup UNION {{u.expire, <<"0">> \o u.expire, <<"1", ":">> \o u.expire,
                 FormatInt(ParseInt(u.expire) + 1)} : u \in BlobMinted}

SignatureValues == {<<>>, Garbage} \cup {u.signature : u \in minted}

(* The instants the clock is looked at: just after the start, and around   *)
(* every expiry handed out.                                                *)
Instants ==
    {1} \cup UNION {{ParseInt(u.expire) - 1, ParseInt(u.expire),
                     ParseInt(u.expire) + 1} : u \in BlobMinted}

InitGate ==
    /\ db = <<>>
    /\ fs = <<>>
    /\ lock = {}
    /\ req = [r \in Reqs |-> IdleReq]
    /\ hist = [k \in Keys |-> NoHist]
    /\ arrivals = 0
    /\ secretKey \in {APISecret, <<>>}
    /\ softDelete = FALSE
    /\ now = 0
    /\ minted = {}
    /\ gate = NoGate
    /\ codec = NoCodec
    /\ page = NoPage
    /\ signed = NoSigned
    /\ serve = NoServe
    /\ fetch = NoFetch
    /\ upload = NoUpload

storeVars == <<db, fs, lock, req, hist, arrivals, softDelete>>

(* The gate keeps no state: once a request is answered, the decision is   *)
(* forgotten before the next event.                                        *)
Answered == gate.kind = "access"

Respond ==
    /\ Answered
    /\ gate' = NoGate
    /\ UNCHANGED <<storeVars, probeVars, secretKey, now, minted>>

Tick(t) ==
    /\ ~Answered
    /\ t > now
    /\ now' = t
    /\ UNCHANGED <<storeVars, probeVars, secretKey, minted, gate>>

(* Two of the methods the blob store routes, and the query parameters a   *)
(* request carries besides x-signature and x-expire (none, unlink=true).   *)
Methods == {"GET", "DELETE"}
UnlinkQuery == <<"u", "n", "l", "i", "n", "k", "=", "t", "r", "u", "e">>
Queries == {<<>>, UnlinkQuery}

(* GET /sign/<path>?<query>: the API key is checked, then SignURL mints    *)
(* the URL; the query of the request is carried over to the minted URL.    *)
(* `method` of a minted URL is history: the method of the first request    *)
(* the gate admitted on that very URL, "" before.                          *)
SignRequest(path, query, apiKey) ==
    /\ ~Answered
    /\ Cardinality(minted) < MaxMinted
    /\ LET denied == VerifyAPIKey(secretKey, apiKey)
           u == SignURL(path, SignSecret, now)
       IN  IF denied # 0
           THEN /\ gate' = [NoGate EXCEPT !.kind = "sign", !.method = "GET",
                                          !.path = path, !.query = query,
                                          !.apiKey = apiKey, !.at = now,
                                          !.result = denied]
                /\ UNCHANGED minted
           ELSE IF ~u.ok
           THEN /\ gate' = [NoGate EXCEPT !.kind = "sign", !.method = "GET",
                                          !.path = path, !.query = query,
                                          !.apiKey = apiKey, !.at = now,
                                          !.result = StatusInternalServerError]
                /\ UNCHANGED minted
           ELSE /\ gate' = [NoGate EXCEPT !.kind = "sign", !.method = "GET",
                                          !.path = path, !.query = query,
                                          !.apiKey = apiKey, !.at = now,
                                          !.signature = u.signature,
                                          !.expireAt = u.expire,
                                          !.result = StatusOK]
                /\ minted' = minted \cup
                       {[path |-> u.path, query |-> query,
                         expire |-> u.expire, signature |-> u.signature,
                         t0 |-> now, method |-> ""]}
    /\ UNCHANGED <<storeVars, probeVars, secretKey, now>>

(* A request to the blob store passes through NewVerifyAccess. *)
Access(method, path, query, apiKey, signature, expireAt) ==
    /\ ~Answered
    /\ LET result == VerifyAccess(secretKey, SignSecret, path, apiKey,
                                  signature, expireAt, now)
           first(u) == /\ u.method = "" /\ result = 0 /\ apiKey = <<>>
                       /\ path = u.path /\ query = u.query
                       /\ signature = u.signature /\ expireAt = u.expire
       IN  /\ gate' = [kind |-> "access", method |-> method, path |-> path,
                       query |-> query, apiKey |-> apiKey,
                       signature |-> signature, expireAt |-> expireAt,
                       at |-> now, result |-> result]
           /\ minted' = {IF first(u) THEN [u EXCEPT !.method = method] ELSE u :
                            u \in minted}
    /\ UNCHANGED <<storeVars, probeVars, secretKey, now>>

NextGate ==
    \/ Respond
    \/ \E t \in Instants : Tick(t)
    \/ \E path \in SignPaths, query \in Queries, apiKey \in {<<>>, APISecret} :
          SignRequest(path, query, apiKey)
    \/ \E method \in Methods, path \in AccessPaths, query \in Queries,
          apiKey \in {<<>>, APISecret, BadKey},
          signature \in SignatureValues, expireAt \in ExpireValues :
          Access(method, path, query, apiKey, signature, expireAt)

SpecGate == InitGate /\ [][NextGate]_vars

-----------------------------------------------------------------------------
(* The record codec on its own: records are encoded by fromRecord and the  *)
(* bytes decoded by toRecord, as PutRecord and GetRecord do.               *)

HexDigits == {"0", "1", "2", "3", "4", "5", "6", "7", "8", "9",
              "a", "b", "c", "d", "e", "f"}

KeyBytes == {"a", "b", "x", "y", "I"}

(* Hashes as Write computes them, of every input of up to two bytes. *)
LegalHashes ==
    {Md5Hex(<<>>)} \cup {Md5Hex(<<c>>) : c \in KeyBytes}
        \cup {Md5Hex(<<c, d>>) : c, d \in KeyBytes}

(* Hash fields no Write produces: too short, too long, not hex. *)
IllegalHashes ==
    {SubSeq(Md5Hex(<<"a">>), 1, HashLen - 1), Md5Hex(<<"a">>) \o <<"0">>,
     HASH, DELETED, [i \in 1..HashLen |-> "z"]}

CodecRecords ==
    {Record(d, h) : d \in {NO, SOFT, HARD},
                    h \in {<<>>} \cup LegalHashes \cup IllegalHashes}

LegalRecord(rec) ==
    /\ rec.Deleted \in {NO, SOFT}
    /\ \/ rec.Hash = <<>>
       \/ Len(rec.Hash) = HashLen
            /\ \A i \in 1..HashLen : rec.Hash[i] \in HexDigits

InitCodec ==
    /\ db = <<>>
    /\ fs = <<>>
    /\ lock = {}
    /\ req = [r \in Reqs |-> IdleReq]
    /\ hist = [k \in Keys |-> NoHist]
    /\ arrivals = 0
    /\ secretKey = APISecret
    /\ softDelete = FALSE
    /\ now = 0
    /\ minted = {}
    /\ gate = NoGate
    /\ codec = NoCodec
    /\ page = NoPage
    /\ signed = NoSigned
    /\ serve = NoServe
    /\ fetch = NoFetch
    /\ upload = NoUpload

(* fromRecord, and toRecord of its bytes when it returns no error. *)
RoundTrip(rec) ==
    /\ codec' = [kind |-> "encode", rec |-> rec, err |-> fromRecordErr(rec),
                 data |-> IF fromRecordErr(rec) THEN <<>> ELSE fromRecord(rec),
                 back |-> IF fromRecordErr(rec) THEN Record(NO, <<>>)
                          ELSE toRecord(fromRecord(rec))]
    /\ UNCHANGED <<storeVars, gateVars, page, signed, serve, fetch, upload>>

NextCodec == \E rec \in CodecRecords : RoundTrip(rec)

SpecCodec == InitCodec /\ [][NextCodec]_vars

-----------------------------------------------------------------------------
(* toRecord on its own, on bytes that need not come from fromRecord: what  *)
(* GetRecord hands it is whatever the index holds under the key.           *)

(* toRecord's run-time panic: ss[4:36] is a slice of the string that is    *)
(* left after "DELETED" and needs 36 bytes of it (slice bounds out of      *)
(* range otherwise).                                                       *)
toRecordPanics(data) ==
    LET del == HasPrefix(data, DELETED)
        ss  == IF del THEN SubSeq(data, 8, Len(data)) ELSE data
    IN  HasPrefix(ss, HASH) /\ Len(ss) < 36

RawBytes == {"D", "H", "0", "z"}

(* Short byte strings, and an optional "DELETED" before nothing, "HASH"    *)
(* alone, or "HASH" and a hash field of any of the kinds above.            *)
RawInputs ==
    UNION {[1..n -> RawBytes] : n \in 0..MaxRawLen}
        \cup {p \o q : p \in {<<>>, DELETED, <<"x">>},
                       q \in {<<>>, HASH}
                            \cup {HASH \o h : h \in LegalHashes \cup IllegalHashes}}

InitDecode == InitCodec

(* toRecord(data): the record, or the panic. *)
Decode(data) ==
    /\ codec' = [kind |-> "decode", rec |-> Record(NO, <<>>),
                 err |-> toRecordPanics(data), data |-> data,
                 back |-> IF toRecordPanics(data) THEN Record(NO, <<>>)
                          ELSE toRecord(data)]
    /\ UNCHANGED <<storeVars, gateVars, page, signed, serve, fetch, upload>>

NextDecode == \E data \in RawInputs : Decode(data)

SpecDecode == InitDecode /\ [][NextDecode]_vars

-----------------------------------------------------------------------------
(* GetRecord on its own: db.Get answers with the stored bytes, with        *)
(* ErrNotFound, or with another error (a closed or corrupted database, an  *)
(* I/O error) and no bytes.                                                *)

(* What the index holds under the key: a record as the store writes it,    *)
(* or nothing (HARD stands for "no record").                               *)
StoredRecords ==
    {Record(d, h) : d \in {NO, SOFT}, h \in {<<>>} \cup LegalHashes}
        \cup {Record(HARD, <<>>)}

DbGetOf(stored, fault) ==
    IF fault THEN [data |-> <<>>, err |-> "ErrClosed"]
    ELSE IF stored.Deleted = HARD THEN [data |-> <<>>, err |-> "ErrNotFound"]
    ELSE [data |-> fromRecord(stored), err |-> "nil"]

InitLookup == InitCodec

(* GetRecord(key) when the index holds `stored` and the read fails or not. *)
Lookup(stored, fault) ==
    /\ codec' = [kind |-> "lookup", rec |-> stored, err |-> fault,
                 data |-> DbGetOf(stored, fault).data,
                 back |-> RecordOf(DbGetOf(stored, fault).data,
                                   DbGetOf(stored, fault).err)]
    /\ UNCHANGED <<storeVars, gateVars, page, signed, serve, fetch, upload>>

NextLookup == \E stored \in StoredRecords, fault \in BOOLEAN : Lookup(stored, fault)

SpecLookup == InitLookup /\ [][NextLookup]_vars

-----------------------------------------------------------------------------
(* The signer on its own: Sign of a message, of the message behind one     *)
(* more "/", and behind two.                                               *)

MsgBytes == {"/", "a", "b", ":"}

Messages == UNION {[1..n -> MsgBytes] : n \in 0..MaxMsgLen}

Secrets == {<<>>, SignSecret, APISecret}

InitSign ==
    /\ db = <<>>
    /\ fs = <<>>
    /\ lock = {}
    /\ req = [r \in Reqs |-> IdleReq]
    /\ hist = [k \in Keys |-> NoHist]
    /\ arrivals = 0
    /\ secretKey = APISecret
    /\ softDelete = FALSE
    /\ now = 0
    /\ minted = {}
    /\ gate = NoGate
    /\ codec = NoCodec
    /\ page = NoPage
    /\ signed = NoSigned
    /\ serve = NoServe
    /\ fetch = NoFetch
    /\ upload = NoUpload

SignMessage(key, secret) ==
    /\ signed' = [NoSigned EXCEPT
                     !.kind = "sign", !.key = key, !.secret = secret,
                     !.plain = Sign(key, secret),
                     !.slashed = Sign(SLASH \o key, secret),
                     !.twice = Sign(SLASH \o SLASH \o key, secret)]
    /\ UNCHANGED <<storeVars, gateVars, codec, page, serve, fetch, upload>>

NextSign == \E key \in Messages, secret \in Secrets : SignMessage(key, secret)

SpecSign == InitSign /\ [][NextSign]_vars

-----------------------------------------------------------------------------
(* Signed /serve URLs: SignURL mints the URL of an operation path, the     *)
(* pipeline verifies the minted signature against its own signer.          *)

(* SignURL of /serve/<p>, asked for directly or under /sign, and the       *)
(* pipeline's verdict on the minted signature for operation path p.        *)
SignServe(p, secret, viaSign) ==
    LET path == (IF viaSign THEN SignPrefix ELSE <<>>) \o ServePrefix \o SLASH \o p
        u == SignURL(path, secret, now)
    IN  /\ signed' = [NoSigned EXCEPT
                         !.kind = "serve", !.key = p, !.secret = secret,
                         !.url = u.path, !.expire = u.expire,
                         !.plain = u.signature,
                         !.verifier = hmacSignerSign(secret, SignerTruncate, p),
                         !.accepted = u.ok /\ PipelineAccepts(u.signature, p, secret)]
        /\ UNCHANGED <<storeVars, gateVars, codec, page, serve, fetch, upload>>

NextServeSign ==
    \E p \in Messages, secret \in Secrets, viaSign \in BOOLEAN :
        SignServe(p, secret, viaSign)

SpecServeSign == InitSign /\ [][NextServeSign]_vars

-----------------------------------------------------------------------------
(* The pipeline in front of the blob store (internal/app/imagor): a /serve *)
(* request is answered from the result cache or, on a miss, from the blob  *)
(* the loader resolves, and the result is then stored in the cache.  The   *)
(* blob store is seen between its requests: a PUT from its start to its    *)
(* 201 and a DELETE from its start to its 204 are one step each here.      *)

BlobSlash == <<"b", "l", "o", "b", "/">>

(* The image part of an operation path: a blob key, the same behind a      *)
(* "/", and a source that is no blob.                                      *)
BlobImage(key) == BlobSlash \o key

ServeImages ==
    {BlobImage(k) : k \in Keys} \cup {SLASH \o BlobImage(StoredKey)}
        \cup {<<"u", "r", "l", "/", "x">>}

(* The operations of the path, in front of the image. *)
ServeOp == <<"1", "x", "1">>

(* The key an image names for the blob loader. *)
ImageKey(image) ==
    TrimPrefix(IF HasPrefix(image, SLASH) THEN Tail(image) ELSE image, BlobSlash)

(* A blob loader that does not look at the record. *)
BlobPathAnyRecord(image) ==
    LET key == IF HasPrefix(image, SLASH) THEN Tail(image) ELSE image
    IN  IF ~HasPrefix(key, BlobSlash) THEN [ok |-> FALSE, path |-> <<>>]
        ELSE [ok |-> TRUE, path |-> KeyToPath(TrimPrefix(key, BlobSlash))]

(* BlobStorage.Path: the file of the image, and whether there is one. *)
BlobPath(image) ==
    LET key == IF HasPrefix(image, SLASH) THEN Tail(image) ELSE image
    IN  IF ~HasPrefix(key, BlobSlash) THEN [ok |-> FALSE, path |-> <<>>]
        ELSE IF GetRecord(TrimPrefix(key, BlobSlash)).Deleted # NO
        THEN [ok |-> FALSE, path |-> <<>>]
        ELSE [ok |-> TRUE, path |-> KeyToPath(TrimPrefix(key, BlobSlash))]

(* BlobStorage.Get, and the read of the blob it returns: the error and the *)
(* bytes.  The blob opens its file when it is read; a file that is not     *)
(* there is the library's ErrNotFound.                                     *)
BlobGet(image) ==
    LET at == BlobPath(image)
    IN  IF ~at.ok THEN [err |-> "ErrInvalid", bytes |-> <<>>]
        ELSE IF at.path \notin DOMAIN fs
        THEN [err |-> "ErrNotFound", bytes |-> <<>>]
        ELSE [err |-> "nil", bytes |-> fs[at.path]]

(* The key of a result in the result cache: the operation path. *)
ResultKey(image) == ServeOp \o SLASH \o image

InitServe ==
    /\ db = <<>>
    /\ fs = <<>>
    /\ lock = {}
    /\ req = [r \in Reqs |-> IdleReq]
    /\ hist = [k \in Keys |-> NoHist]
    /\ arrivals = 0
    /\ secretKey = APISecret
    /\ softDelete \in BOOLEAN
    /\ now = 0
    /\ minted = {}
    /\ gate = NoGate
    /\ codec = NoCodec
    /\ page = NoPage
    /\ signed = NoSigned
    /\ serve = NoServe
    /\ fetch = NoFetch
    /\ upload = NoUpload

serveRest == <<lock, req, arrivals, softDelete, gateVars, codec, page, signed,
               fetch, upload>>

(* The response of the pipeline is on the wire before anything else        *)
(* happens.                                                                *)
Served == serve.last.kind = "serve"

Deliver ==
    /\ Served
    /\ serve' = [serve EXCEPT !.last = NoServed]
    /\ UNCHANGED <<db, fs, hist, serveRest>>

(* PUT key answered 201: the blob file holds the body and the record is    *)
(* LIVE with its hash.                                                     *)
PutDone(key, body) ==
    /\ ~Served
    /\ validType(Take(body, SniffLen))
    /\ Len(body) > 0 /\ Len(body) < maxFileSize
    /\ fs' = Put(fs, KeyToPath(key), body)
    /\ db' = PutRecord(key, Record(NO, Md5Hex(body)))
    /\ hist' = [hist EXCEPT ![key] =
           [last |-> "put", body |-> body, deleted |-> FALSE,
            stored |-> {body}]]
    /\ UNCHANGED <<serve, serveRest>>

(* DELETE key answered 204: with unlink the record becomes a tombstone     *)
(* with the same hash, without it the file and the record are removed.     *)
DeleteDone(key, unlink) ==
    /\ ~Served
    /\ LET rec == GetRecord(key)
       IN  /\ ~(rec.Deleted = HARD \/ (unlink /\ rec.Deleted = SOFT))
           /\ ~(~unlink /\ softDelete /\ rec.Deleted = NO)
           /\ IF unlink
              THEN /\ db' = PutRecord(key, Record(SOFT, rec.Hash))
                   /\ fs' = fs
                   /\ hist' = [hist EXCEPT ![key].last = "unlink"]
              ELSE /\ KeyToPath(key) \in DOMAIN fs
                   /\ fs' = Del(fs, KeyToPath(key))
                   /\ db' = Del(db, key)
                   /\ hist' = [hist EXCEPT ![key] =
                          [last |-> "del", body |-> <<>>, deleted |-> TRUE,
                           stored |-> hist[key].stored]]
    /\ UNCHANGED <<serve, serveRest>>

(* GET /serve/<ServeOp>/<image>: the result cache is looked up first; on a *)
(* miss the loader resolves the image and the result made of its bytes is  *)
(* stored in the cache.  `src` is the bytes the response was made of.      *)
ServeBlob(image) ==
    /\ ~Served
    /\ LET hit == ResultKey(image) \in DOMAIN serve.cache
           got == BlobGet(image)
           rec == GetRecord(ImageKey(image))
       IN  IF hit
           THEN serve' = [serve EXCEPT !.last =
                    [kind |-> "serve", image |-> image, err |-> "nil",
                     src |-> serve.cache[ResultKey(image)], cached |-> TRUE,
                     rec |-> rec]]
           ELSE serve' =
                    [cache |-> IF got.err = "nil"
                               THEN Put(serve.cache, ResultKey(image), got.bytes)
                               ELSE serve.cache,
                     last |-> [kind |-> "serve", image |-> image,
                               err |-> got.err, src |-> got.bytes,
                               cached |-> FALSE, rec |-> rec]]
    /\ UNCHANGED <<db, fs, hist, serveRest>>

(* A cached result outlives its time (Config.ResultCacheTTL) and is gone.  *)
CacheExpire(image) ==
    /\ ~Served
    /\ ResultKey(image) \in DOMAIN serve.cache
    /\ serve' = [serve EXCEPT !.cache = Del(serve.cache, ResultKey(image))]
    /\ UNCHANGED <<db, fs, hist, serveRest>>

NextServe ==
    \/ Deliver
    \/ \E key \in Keys, body \in {Body(1), Body(2)} : PutDone(key, body)
    \/ \E key \in Keys, unlink \in BOOLEAN : DeleteDone(key, unlink)
    \/ \E image \in ServeImages : ServeBlob(image)
    \/ \E image \in ServeImages : CacheExpire(image)

SpecServe == InitServe /\ [][NextServe]_vars

-----------------------------------------------------------------------------
(* The HTTP loader (httploader.HTTPLoader) behind /serve/.../url/<host>/.. *)
(* Hosts and patterns are byte strings.  A request is what leaves          *)
(* client.Do: its method and the host it goes to.  The remote side is free *)
(* in what it answers: a redirect to any host, a final response with any   *)
(* status and Content-Length, or no response at all.                       *)

HostA == <<"a", ".", "c">>
HostB == <<"b", ".", "c">>
HostSub == <<"x", ".", "a", ".", "c">>
HostBare == <<"e">>
HostLocal == <<"l", "o", "c", "a", "l", "h", "o", "s", "t">>
HostGone == <<"n", ".", "c">>
Hosts == {HostA, HostB, HostSub, HostBare, HostLocal, HostGone}

(* The hosts a redirect points to. *)
RedirectTargets == {HostA, HostB, HostSub, HostBare}

(* net.LookupHost: HostGone has no address, every other host has one. *)
LookupHost(host) == host # HostGone

(* Values of SERVE_ALLOWED_HTTP_SOURCES: unset, the default "*", one host, *)
(* a glob, two hosts with a blank after the comma, and a lone comma.       *)
SourcesUnset == <<>>
SourcesAny == <<"*">>
SourcesOne == HostA
SourcesGlob == <<"*", ".", "a", ".", "c">>
SourcesTwo == HostA \o <<",", " ">> \o HostB
SourcesComma == <<",">>
SourcesConfigs ==
    {SourcesUnset, SourcesAny, SourcesOne, SourcesGlob, SourcesTwo, SourcesComma}

(* The upload size cap handed to WithMaxAllowedSize, and the values the    *)
(* Content-Length header of a response takes (0 stands for a header that   *)
(* is missing or not a number, which strconv.Atoi turns into 0).           *)
MaxAllowedSizes == {0, maxFileSize}
ContentLengths == {0, maxFileSize, maxFileSize + 1}

(* Final statuses of a response. *)
StatusPartialContent == 206
FinalStatuses == {StatusOK, StatusPartialContent, StatusNotFound}

(* strings.Contains(s, c) for a single byte c. *)
ContainsByte(s, c) == \E i \in 1..Len(s) : s[i] = c

(* strings.Split(s, ","). *)
RECURSIVE SplitComma(_)
SplitComma(s) ==
    IF ~ContainsByte(s, ",") THEN <<s>>
    ELSE LET i == CHOOSE k \in 1..Len(s) :
                      s[k] = "," /\ \A j \in 1..(k - 1) : s[j] # ","
             rest == SubSeq(s, i + 1, Len(s))
         IN  <<SubSeq(s, 1, i - 1)>> \o SplitComma(rest)

(* strings.TrimSpace. *)
RECURSIVE TrimSpace(_)
TrimSpace(s) ==
    IF s = <<>> THEN s
    ELSE IF Head(s) = " " THEN TrimSpace(Tail(s))
    ELSE IF s[Len(s)] = " " THEN TrimSpace(SubSeq(s, 1, Len(s) - 1))
    ELSE s

(* WithAllowedSources: one host pattern per non-empty trimmed segment. *)
RECURSIVE NonEmptyTrimmed(_)
NonEmptyTrimmed(segs) ==
    IF segs = <<>> THEN <<>>
    ELSE LET host == TrimSpace(Head(segs))
             rest == NonEmptyTrimmed(Tail(segs))
         IN  IF Len(host) > 0 THEN <<host>> \o rest ELSE rest

WithAllowedSources(raw) == NonEmptyTrimmed(SplitComma(raw))

(* WithMaxAllowedSize: only a positive size is taken. *)
WithMaxAllowedSize(n) == IF n > 0 THEN n ELSE 0

(* path.Match on a host: "*" stands for any run of bytes (a host has no    *)
(* "/"), every other byte of these patterns stands for itself.             *)
RECURSIVE PathMatch(_, _)
PathMatch(pattern, name) ==
    IF pattern = <<>> THEN name = <<>>
    ELSE IF Head(pattern) = "*"
         THEN \E i \in 0..Len(name) :
                  PathMatch(Tail(pattern), SubSeq(name, i + 1, Len(name)))
         ELSE /\ name # <<>>
              /\ Head(name) = Head(pattern)
              /\ PathMatch(Tail(pattern), Tail(name))

(* AllowedSource.Match for some source of the list. *)
SourceMatch(allowedSources, host) ==
    \E i \in 1..Len(allowedSources) : PathMatch(allowedSources[i], host)

isURLAllowed(host, allowedSources) ==
    IF ~ContainsByte(host, ".") /\ host # HostLocal THEN FALSE
    ELSE IF Len(allowedSources) = 0 THEN TRUE
    ELSE IF ~LookupHost(host) THEN FALSE
    ELSE SourceMatch(allowedSources, host)

AllowedSources == WithAllowedSources(fetch.raw)

(* checkRedirect(r, via): the error, "nil" when the redirect is followed. *)
MaxRedirects == 10
checkRedirect(target, via) ==
    IF via >= MaxRedirects THEN "stopped after 10 redirects"
    ELSE IF ~isURLAllowed(target, AllowedSources) THEN "ErrSourceNotAllowed"
    ELSE "nil"

(* The HEAD gate of Get: the error for a final HEAD response, "nil" when   *)
(* the load goes on.  The status test is the code's, with its "and".       *)
headStatusFails(status) == status < 200 /\ status > 206
headStatusOutside(status) == status < 200 \/ status > 206
headGate(status, contentLength) ==
    IF headStatusFails(status) THEN "ErrStatus"
    ELSE IF contentLength > fetch.max THEN "ErrMaxSizeExceeded"
    ELSE "nil"

(* Longest chain of requests the remote side is given in one client call. *)
MaxVia == 12

InitFetch ==
    /\ db = <<>>
    /\ fs = <<>>
    /\ lock = {}
    /\ req = [r \in Reqs |-> IdleReq]
    /\ hist = [k \in Keys |-> NoHist]
    /\ arrivals = 0
    /\ secretKey = APISecret
    /\ softDelete = FALSE
    /\ now = 0
    /\ minted = {}
    /\ gate = NoGate
    /\ codec = NoCodec
    /\ page = NoPage
    /\ signed = NoSigned
    /\ serve = NoServe
    /\ \E raw \in SourcesConfigs, n \in MaxAllowedSizes :
          fetch = [NoFetch EXCEPT !.raw = raw, !.max = WithMaxAllowedSize(n)]
    /\ upload = NoUpload

fetchRest == <<storeVars, gateVars, codec, page, signed, serve, upload>>

(* HTTPLoader.Get up to its first request.  The loader exists only when    *)
(* SERVE_ALLOWED_HTTP_SOURCES is not the empty string (imagor.New).        *)
Get(host) ==
    /\ fetch.pc = "idle"
    /\ fetch.raw # SourcesUnset
    /\ fetch' =
         IF ~isURLAllowed(host, AllowedSources)
         THEN [fetch EXCEPT !.pc = "done", !.origin = host,
                            !.err = "ErrSourceNotAllowed"]
         ELSE [fetch EXCEPT !.pc = IF fetch.max > 0 THEN "HEAD" ELSE "GET",
                            !.origin = host, !.target = host]
    /\ UNCHANGED fetchRest

(* client.Do sends the request and is answered by a redirect. *)
Redirected(target) ==
    /\ fetch.pc \in {"HEAD", "GET"}
    /\ fetch.via < MaxVia
    /\ LET via == fetch.via + 1
           err == checkRedirect(target, via)
           sent == fetch.sent \cup {[method |-> fetch.pc, host |-> fetch.target]}
       IN  fetch' =
             IF err = "nil"
             THEN [fetch EXCEPT !.sent = sent, !.via = via, !.target = target,
                                !.followed = fetch.followed + 1]
             ELSE [fetch EXCEPT !.sent = sent, !.via = via, !.pc = "done",
                                !.err = err]
    /\ UNCHANGED fetchRest

(* client.Do sends the request and gets no response. *)
Unanswered ==
    /\ fetch.pc \in {"HEAD", "GET"}
    /\ fetch' = [fetch EXCEPT
                   !.sent = fetch.sent \cup
                              {[method |-> fetch.pc, host |-> fetch.target]},
                   !.via = fetch.via + 1, !.pc = "done", !.err = "transport"]
    /\ UNCHANGED fetchRest

(* client.Do sends the HEAD request and gets its final response. *)
HeadAnswered(status, contentLength) ==
    /\ fetch.pc = "HEAD"
    /\ LET err == headGate(status, contentLength)
           sent == fetch.sent \cup {[method |-> "HEAD", host |-> fetch.target]}
       IN  fetch' =
             IF err = "nil"
             THEN [fetch EXCEPT !.sent = sent, !.pc = "GET",
                                !.target = fetch.origin, !.via = 0,
                                !.followed = 0,
                                !.headStatus = status,
                                !.headLen = contentLength]
             ELSE [fetch EXCEPT !.sent = sent, !.pc = "done", !.err = err,
                                !.via = fetch.via + 1,
                                !.headStatus = status,
                                !.headLen = contentLength]
    /\ UNCHANGED fetchRest

(* The blob is read: client.Do sends the GET request and gets its final    *)
(* response.                                                               *)
GetAnswered(status) ==
    /\ fetch.pc = "GET"
    /\ fetch' = [fetch EXCEPT
                   !.sent = fetch.sent \cup
                              {[method |-> "GET", host |-> fetch.target]},
                   !.via = fetch.via + 1, !.pc = "done", !.status = status,
                   !.err = IF status >= 400 THEN "ErrStatus" ELSE "nil"]
    /\ UNCHANGED fetchRest

NextFetch ==
    \/ \E host \in Hosts : Get(host)
    \/ \E target \in RedirectTargets : Redirected(target)
    \/ Unanswered
    \/ \E status \in FinalStatuses, contentLength \in ContentLengths :
          HeadAnswered(status, contentLength)
    \/ \E status \in FinalStatuses : GetAnswered(status)

SpecFetch == InitFetch /\ [][NextFetch]_vars

-----------------------------------------------------------------------------
(* The React SDK's upload of one selected file (js/src/react.tsx).  The    *)
(* page runs one task at a time: an action below is one run of script      *)
(* between two points where the event loop may take another task, that is, *)
(* from a call or a callback to the next await that waits for something    *)
(* outside the script (the key, the response, its text).                   *)

MaxCalls == 2        \* calls of uploadFile for the file
MaxAborts == 2       \* invocations of the abort callback for the file

TerminalStatuses == {"success", "error"}
AbortableStatuses == {"idle", "queued", "uploading"}

InitUpload ==
    /\ db = <<>>
    /\ fs = <<>>
    /\ lock = {}
    /\ req = [r \in Reqs |-> IdleReq]
    /\ hist = [k \in Keys |-> NoHist]
    /\ arrivals = 0
    /\ secretKey = APISecret
    /\ softDelete = FALSE
    /\ now = 0
    /\ minted = {}
    /\ gate = NoGate
    /\ codec = NoCodec
    /\ page = NoPage
    /\ signed = NoSigned
    /\ serve = NoServe
    /\ fetch = NoFetch
    /\ \E tooLarge \in BOOLEAN : upload = [NoUpload EXCEPT !.tooLarge = tooLarge]

uploadRest == <<storeVars, gateVars, codec, page, signed, serve, fetch>>

(* No call of uploadFile for the file is under way. *)
NoCallUnderWay == upload.pc \in {"none", "returned"}

(* uploadFiles, for this file: a file that is not aborted is queued. *)
Queue ==
    /\ NoCallUnderWay
    /\ upload.calls < MaxCalls
    /\ ~(upload.status = "aborted" \/ upload.aborted)
    /\ upload.status # "queued"
    /\ upload' = [upload EXCEPT !.status = "queued"]
    /\ UNCHANGED uploadRest

(* The catch branch of uploadFile for an error that is not an AbortError,  *)
(* and the size check's branch: status error, onError.                     *)
Failed(u) ==
    [u EXCEPT !.status = "error", !.onError = TRUE,
              !.calledAfter = u.calledAfter \/ u.cut,
              !.handle = FALSE, !.pc = "returned"]

(* uploadFile from its call to the await of the key. *)
UploadFile ==
    /\ NoCallUnderWay
    /\ upload.calls < MaxCalls
    /\ LET u == [upload EXCEPT !.calls = upload.calls + 1]
       IN  upload' =
             IF u.tooLarge
             THEN [Failed(u) EXCEPT !.handle = u.handle]
             ELSE IF u.status = "aborted"
             THEN [u EXCEPT !.pc = "returned"]
             ELSE IF u.aborted
             THEN [u EXCEPT !.status = "uploading", !.handle = TRUE,
                            !.pc = "returned"]
             ELSE [u EXCEPT !.status = "uploading", !.handle = TRUE,
                            !.pc = "awaitKey"]
    /\ UNCHANGED uploadRest

(* The key is there: the request is made, opened and sent. *)
KeyResolved ==
    /\ upload.pc = "awaitKey"
    /\ upload' = [upload EXCEPT !.pc = "inflight",
                                !.puts = upload.puts + 1,
                                !.putAfter = upload.putAfter \/ upload.cut]
    /\ UNCHANGED uploadRest

(* The callback of useAbort.  AbortController.abort() runs the listeners   *)
(* of the signal once, at the first call: handleAbortSignal when it is     *)
(* registered, and the listener of a request that was made before.         *)
Abort ==
    /\ upload.aborts < MaxAborts
    /\ LET u == [upload EXCEPT !.aborts = upload.aborts + 1]
           fire == ~u.aborted
           stops == fire /\ u.pc = "inflight"
       IN  upload' =
             IF u.status \in TerminalStatuses THEN u
             ELSE [u EXCEPT
                     !.aborted = TRUE,
                     !.status = "aborted",
                     !.cut = u.cut \/ u.status \in AbortableStatuses,
                     !.onAbort = u.onAbort \/ (fire /\ u.handle),
                     !.handle = u.handle /\ ~fire,
                     !.pc = IF stops THEN "returned" ELSE u.pc]
    /\ UNCHANGED uploadRest

(* The load event of the request: a 2xx response ends the call, with       *)
(* success when the status is still uploading; another response is read.   *)
Loaded(ok) ==
    /\ upload.pc = "inflight"
    /\ upload' =
         IF ~ok THEN [upload EXCEPT !.pc = "awaitText"]
         ELSE IF upload.status = "uploading"
         THEN [upload EXCEPT !.status = "success", !.onSuccess = TRUE,
                             !.calledAfter = upload.calledAfter \/ upload.cut,
                             !.handle = FALSE, !.pc = "returned"]
         ELSE [upload EXCEPT !.handle = FALSE, !.pc = "returned"]
    /\ UNCHANGED uploadRest

(* The text of a response that is not ok is there: it is thrown. *)
TextRead ==
    /\ upload.pc = "awaitText"
    /\ upload' = Failed(upload)
    /\ UNCHANGED uploadRest

(* The error event of the request. *)
XhrFailed ==
    /\ upload.pc = "inflight"
    /\ upload' = Failed(upload)
    /\ UNCHANGED uploadRest

NextUpload ==
    \/ Queue
    \/ UploadFile
    \/ KeyResolved
    \/ Abort
    \/ \E ok \in BOOLEAN : Loaded(ok)
    \/ TextRead
    \/ XhrFailed

SpecUpload == InitUpload /\ [][NextUpload]_vars

-----------------------------------------------------------------------------
(* The list query (QueryHandler) over the ordered index.                   *)

(* The byte values of the characters keys are made of. *)
Ord(c) ==
    CASE c = "/" -> 47
      [] c \in {"0", "1", "2", "3", "4", "5", "6", "7", "8", "9"} ->
            48 + DigitValue(c)
      [] c = ":" -> 58
      [] c = "I" -> 73
      [] c = "a" -> 97
      [] c = "b" -> 98
      [] c = "c" -> 99
      [] c = "k" -> 107
      [] c = "x" -> 120
      [] c = "y" -> 121
      [] c = "z" -> 122
      [] OTHER   -> 255

Codes(s) == [i \in 1..Len(s) |-> Ord(s[i])]

(* bytes.Compare(a, b) < 0 on byte values. *)
LessCodes(a, b) ==
    \E i \in 1..(Min(Len(a), Len(b)) + 1) :
        /\ \A j \in 1..(i - 1) : a[j] = b[j]
        /\ IF i > Len(a) THEN i <= Len(b)
           ELSE i <= Len(b) /\ a[i] < b[i]

Less(a, b) == LessCodes(Codes(a), Codes(b))

(* util.BytesPrefix: the range [prefix, prefix with its last byte below    *)
(* 0xff incremented); no upper limit when there is no such byte.           *)
RECURSIVE PrefixLimit(_)
PrefixLimit(codes) ==
    IF codes = <<>> THEN [open |-> TRUE, at |-> <<>>]
    ELSE IF codes[Len(codes)] < 255
    THEN [open |-> FALSE,
          at |-> [codes EXCEPT ![Len(codes)] = codes[Len(codes)] + 1]]
    ELSE PrefixLimit(SubSeq(codes, 1, Len(codes) - 1))

BytesPrefix(prefix) ==
    [Start |-> Codes(prefix), Limit |-> PrefixLimit(Codes(prefix))]

(* The keys an index may hold: a few short ones, and numbered ones for a   *)
(* scan that reaches MAX_QUERY_LIMIT; each list is in ascending byte order.*)
SmallKeyOrder == <<<<"a">>, <<"a", "b">>, <<"b">>, <<"b", "a">>>>

BigKey(i) ==
    <<"k", Digits[((i \div 1000) % 10) + 1], Digits[((i \div 100) % 10) + 1],
      Digits[((i \div 10) % 10) + 1], Digits[(i % 10) + 1]>>

NBig == MAX_QUERY_LIMIT + 2

BigKeyOrder == [i \in 1..NBig |-> BigKey(i)]

Ascending(ks) == \A i \in 1..(Len(ks) - 1) : Less(ks[i], ks[i + 1])

IsBig(idx) == BigKey(1) \in DOMAIN idx

(* The index is an ordered map: its keys in ascending byte order. *)
OrderedDescending(idx) ==
    LET Held(k) == k \in DOMAIN idx
        up == SelectSeq(IF IsBig(idx) THEN SmallKeyOrder \o BigKeyOrder
                        ELSE SmallKeyOrder, Held)
    IN  [i \in 1..Len(up) |-> up[Len(up) + 1 - i]]

Ordered(idx) ==
    LET Held(k) == k \in DOMAIN idx
    IN  SelectSeq(IF IsBig(idx) THEN SmallKeyOrder \o BigKeyOrder
                  ELSE SmallKeyOrder, Held)

(* db.NewIterator(slice): the keys k with Start <= k < Limit, in order. *)
NewIterator(idx, slice) ==
    LET InRange(k) ==
            /\ ~LessCodes(Codes(k), slice.Start)
            /\ slice.Limit.open \/ LessCodes(Codes(k), slice.Limit.at)
    IN  SelectSeq(Ordered(idx), InRange)

(* One turn of the loop `for iter.Next()`. *)
ScanStep(idx, st, key, unlinkedOpOk, limit) ==
    IF st.done THEN st
    ELSE LET rec == toRecord(idx[key])
         IN  IF rec.Deleted # NO \/ (rec.Deleted # SOFT /\ unlinkedOpOk)
             THEN st
             ELSE IF Len(st.keys) > MAX_QUERY_LIMIT
             THEN [st EXCEPT !.done = TRUE,
                             !.status = StatusRequestEntityTooLarge]
             ELSE LET keys == Append(st.keys, key)
                  IN  IF limit > 0 /\ Len(keys) > limit
                      THEN [st EXCEPT !.next = key,
                                      !.keys = SubSeq(keys, 1, limit),
                                      !.done = TRUE]
                      ELSE [st EXCEPT !.keys = keys]

(* The loop over it[lo..hi], its turns taken in the iterator's order (the  *)
(* range is folded in halves to keep the evaluation shallow).              *)
RECURSIVE Scan(_, _, _, _, _, _, _)
Scan(idx, it, lo, hi, st, unlinkedOpOk, limit) ==
    IF lo > hi THEN st
    ELSE IF lo = hi THEN ScanStep(idx, st, it[lo], unlinkedOpOk, limit)
    ELSE LET mid  == (lo + hi) \div 2
             left == Scan(idx, it, lo, mid, st, unlinkedOpOk, limit)
         IN  IF left.done THEN left
             ELSE Scan(idx, it, mid + 1, hi, left, unlinkedOpOk, limit)

(* Config.BasePath: the path of the list endpoint. *)
basePath == BlobPrefix

ListFailed(status) ==
    [status |-> status, keys |-> <<>>, next |-> <<>>, hasMore |-> FALSE,
     nextPage |-> <<>>, nextPath |-> <<>>, nextExpire |-> <<>>]

(* QueryHandler at time t: the status and the ListResponse.  next_page is  *)
(* the request's URL with starting_at set to the cursor, signed by         *)
(* SignURL: its x-signature (nextPage), its path and its x-expire.         *)
QueryHandler(idx, prefix, start, qlimit, unlinkedOpOk, t) ==
    IF qlimit # <<>> /\ ~ParseIntOK(qlimit) THEN ListFailed(StatusBadRequest)
    ELSE LET limit == IF qlimit # <<>> THEN ParseInt(qlimit) ELSE 0
             slice == IF start # <<>>
                      THEN [BytesPrefix(prefix) EXCEPT !.Start = Codes(start)]
                      ELSE BytesPrefix(prefix)
             it    == NewIterator(idx, slice)
             out   == Scan(idx, it, 1, Len(it),
                           [keys |-> <<>>, next |-> <<>>, done |-> FALSE,
                            status |-> 0],
                           unlinkedOpOk, limit)
             signedURL == SignURL(basePath, SignSecret, t)
         IN  IF out.status # 0 THEN ListFailed(out.status)
             ELSE IF out.next # <<>> /\ ~signedURL.ok
             THEN ListFailed(StatusInternalServerError)
             ELSE [status |-> StatusOK, keys |-> out.keys, next |-> out.next,
                   hasMore |-> out.next # <<>>,
                   nextPage |-> IF out.next # <<>> THEN signedURL.signature
                                ELSE <<>>,
                   nextPath |-> IF out.next # <<>> THEN signedURL.path
                                ELSE <<>>,
                   nextExpire |-> IF out.next # <<>> THEN signedURL.expire
                                  ELSE <<>>]

(* Index contents: every assignment of a LIVE or unlinked record to some   *)
(* of the short keys, and the first n numbered keys, all LIVE.             *)
LiveBytes(key) == fromRecord(Record(NO, Md5Hex(key)))
UnlinkedBytes(key) == fromRecord(Record(SOFT, Md5Hex(key)))

SmallKeys == {SmallKeyOrder[i] : i \in 1..Len(SmallKeyOrder)}

SmallIndexes ==
    UNION {{f \in [S -> {"live", "unlinked"}] : TRUE} : S \in SUBSET SmallKeys}

IndexOf(f) ==
    [k \in DOMAIN f |-> IF f[k] = "live" THEN LiveBytes(k) ELSE UnlinkedBytes(k)]

BigIndex(n) == [k \in {BigKey(i) : i \in 1..n} |-> LiveBytes(k)]

ListPrefixes == {<<>>, <<"a">>, <<"a", "b">>, <<"b">>, <<"c">>}
ListStarts == {<<>>, <<"a">>, <<"a", "b">>, <<"b">>, <<"b", "a">>, <<"c">>}
ListLimits == {<<>>, <<"0">>, <<"1">>, <<"2">>, <<"-", "1">>, <<"z">>}
BigLimits == {<<>>, FormatInt(MAX_QUERY_LIMIT), FormatInt(MAX_QUERY_LIMIT + 1)}

InitList ==
    /\ db \in {IndexOf(f) : f \in SmallIndexes}
              \cup {BigIndex(n) : n \in MAX_QUERY_LIMIT..NBig}
    /\ fs = <<>>
    /\ lock = {}
    /\ req = [r \in Reqs |-> IdleReq]
    /\ hist = [k \in Keys |-> NoHist]
    /\ arrivals = 0
    /\ secretKey = APISecret
    /\ softDelete = FALSE
    /\ now = 0
    /\ minted = {}
    /\ gate = NoGate
    /\ codec = NoCodec
    /\ page = NoPage
    /\ signed = NoSigned
    /\ serve = NoServe
    /\ fetch = NoFetch
    /\ upload = NoUpload

listRest == <<db, fs, lock, req, hist, arrivals, softDelete, gateVars, codec,
             signed, serve, fetch, upload>>

(* GET <basePath>?prefix=&starting_at=&limit=&unlinked. *)
List(prefix, start, qlimit, unlinked) ==
    /\ page.kind = "none"
    /\ IF IsBig(db)
       THEN prefix \in {<<>>, <<"k">>} /\ start = <<>> /\ qlimit \in BigLimits
       ELSE prefix \in ListPrefixes /\ start \in ListStarts
            /\ qlimit \in ListLimits
    /\ LET res == QueryHandler(db, prefix, start, qlimit, unlinked, now)
       IN  page' = [kind |-> "list", prefix |-> prefix, start |-> start,
                    qlimit |-> qlimit, unlinked |-> unlinked,
                    status |-> res.status, keys |-> res.keys,
                    next |-> res.next, hasMore |-> res.hasMore,
                    nextPage |-> res.nextPage,
                    nextPath |-> res.nextPath,
                    nextExpire |-> res.nextExpire,
                    first |-> TRUE, start0 |-> start, seen |-> <<>>]
    /\ UNCHANGED listRest

(* The client follows next_page: the same query with starting_at set to    *)
(* the cursor.                                                             *)
FollowNext ==
    /\ page.kind = "list" /\ page.status = StatusOK /\ page.next # <<>>
    /\ LET res == QueryHandler(db, page.prefix, page.next, page.qlimit,
                               page.unlinked, now)
       IN  page' = [page EXCEPT !.start = page.next,
                                !.status = res.status, !.keys = res.keys,
                                !.next = res.next, !.hasMore = res.hasMore,
                                !.nextPage = res.nextPage,
                                !.nextPath = res.nextPath,
                                !.nextExpire = res.nextExpire,
                                !.first = FALSE,
                                !.seen = page.seen \o page.keys]
    /\ UNCHANGED listRest

NextList ==
    \/ \E prefix \in ListPrefixes \cup {<<"k">>}, start \in ListStarts,
          qlimit \in ListLimits \cup BigLimits, unlinked \in BOOLEAN :
          List(prefix, start, qlimit, unlinked)
    \/ FollowNext

SpecList == InitList /\ [][NextList]_vars

-----------------------------------------------------------------------------
(* Properties. *)

IsWrite(r) == req[r].m \in {"PUT", "DELETE"}
IsRead(r) == req[r].m \in {"GET", "HEAD"}
Answering(r) == req[r].pc \in {"unlock", "done"}

(* C1: for every key, at most one PUT or DELETE is between a successful    *)
(* LockKey and its UnlockKey, and the key is in the locked set exactly     *)
(* while one is.                                                           *)
C1_OneLockHolderPerKey ==
    \A key \in Keys :
        /\ Cardinality(Writers(key)) <= 1
        /\ key \in lock <=> Writers(key) # {}

(* A PUT or DELETE has just been refused the lock of a key that another    *)
(* PUT or DELETE holds.                                                    *)
C1_Witness ==
    \E r, q \in Reqs :
        /\ req[r].pc = "done" /\ req[r].status = StatusConflict
        /\ q \in Writers(req[r].k)

(* C2: a PUT or DELETE that arrives while a writer of its key is in flight *)
(* is answered 409 in its first step, with the key's record and blob file  *)
(* as they were, and only such a request is answered 409; a PUT answered   *)
(* 201 leaves exactly its own body stored under a LIVE record with the     *)
(* body's hash, also when another request was turned away meanwhile.       *)
C2_ConflictAndWinner ==
    \A r \in Reqs :
        /\ (IsWrite(r) /\ req[r].pc # "idle") =>
              /\ req[r].behind <=> (req[r].pc = "done"
                                    /\ req[r].status = StatusConflict)
              /\ req[r].status = StatusConflict =>
                    /\ req[r].hadRec = (req[r].k \in DOMAIN db)
                    /\ req[r].pre = DbGet(req[r].k).data
                    /\ req[r].hadFile = (KeyToPath(req[r].k) \in DOMAIN fs)
                    /\ req[r].hadFile => fs[KeyToPath(req[r].k)] = req[r].preFile
        /\ (req[r].m = "PUT" /\ Answering(r) /\ req[r].status = StatusCreated) =>
              /\ KeyToPath(req[r].k) \in DOMAIN fs
              /\ fs[KeyToPath(req[r].k)] = req[r].body
              /\ GetRecord(req[r].k) = Record(NO, Md5Hex(req[r].body))

(* A PUT is answered 201 after a PUT of another body on its key was turned *)
(* away.                                                                   *)
C2_Witness ==
    \E r \in Reqs :
        /\ req[r].m = "PUT" /\ req[r].pc = "done"
        /\ req[r].status = StatusCreated
        /\ req[r].rejected
        /\ req[r].rejectedBody \notin {<<>>, req[r].body}

(* C3: a GET or HEAD that begins after a PUT of v on its key was answered  *)
(* 201, and ends before any later PUT or DELETE takes the key's lock, is   *)
(* answered 200 with Content-Md5 = MD5(v); the body of the GET is v.  (The *)
(* index read and the os.Stat of the request succeed.)                     *)
C3_ReadAfterPut ==
    \A r \in Reqs :
        (IsRead(r) /\ req[r].pc = "done" /\ req[r].clean
            /\ hist[req[r].k].last = "put") =>
              /\ req[r].status = StatusOK
              /\ req[r].rmd5 = Md5Hex(hist[req[r].k].body)
              /\ req[r].m = "GET" => req[r].rbody = hist[req[r].k].body

C3_Witness ==
    \E r \in Reqs :
        /\ req[r].m = "GET" /\ req[r].pc = "done" /\ req[r].clean
        /\ hist[req[r].k].last = "put"
        /\ req[r].rbody = Body(2)

(* C4: in every reachable state, every key with a LIVE record has a blob   *)
(* file whose MD5 is the record's content hash.                            *)
C4_LiveRecordMatchesBlob ==
    \A key \in DOMAIN db :
        toRecord(db[key]).Deleted = NO =>
            /\ KeyToPath(key) \in DOMAIN fs
            /\ Md5Hex(fs[KeyToPath(key)]) = toRecord(db[key]).Hash

C6_AnonymousRejected ==
    (gate.kind = "access" /\ gate.apiKey = <<>> /\ gate.signature = <<>>
        /\ gate.expireAt = <<>>) => gate.result = StatusUnauthorized

(* C7: a request whose x-api-key equals the API secret is admitted,        *)
(* whatever x-signature and x-expire it carries.                           *)
C7_ApiKeyAlwaysAdmits ==
    (gate.kind = "access" /\ gate.apiKey = secretKey) => gate.result = 0

(* C8: a request without an API key header that carries the path, x-expire *)
(* and x-signature of a URL that SignURL minted at t0 for a /blob path is  *)
(* admitted at every instant up to t0 + 1h and answered 401 after it.      *)
C8_SignedUrlLifetime ==
    \A u \in BlobMinted :
        (gate.kind = "access" /\ gate.apiKey = <<>> /\ gate.path = u.path
            /\ gate.signature = u.signature /\ gate.expireAt = u.expire) =>
              /\ gate.at <= u.t0 + HourMillis => gate.result = 0
              /\ gate.at > u.t0 + HourMillis => gate.result = StatusUnauthorized

(* The minted URL is used at the very instant it expires. *)
C8_Witness ==
    \E u \in BlobMinted :
        /\ gate.kind = "access" /\ gate.apiKey = <<>> /\ gate.path = u.path
        /\ gate.signature = u.signature /\ gate.expireAt = u.expire
        /\ gate.at = u.t0 + HourMillis
        /\ gate.result = 0

(* C9: a request without a valid API key that carries the x-signature of a *)
(* minted /blob URL, but a path or an x-expire that differs from the       *)
(* minted ones, is not admitted.                                           *)
C9_SignatureBindsPathAndExpiry ==
    \A u \in BlobMinted :
        (gate.kind = "access" /\ gate.apiKey # secretKey
            /\ gate.signature = u.signature
            /\ (gate.path # u.path \/ gate.expireAt # u.expire)) =>
              gate.result # 0

(* The minted signature is presented before it expires with an x-expire    *)
(* that parses to the minted instant but is spelled differently.           *)
C9_Witness ==
    \E u \in BlobMinted :
        /\ gate.kind = "access" /\ gate.apiKey = <<>>
        /\ secretKey # <<>>
        /\ gate.signature = u.signature /\ gate.path = u.path
        /\ gate.expireAt = <<"0">> \o u.expire
        /\ gate.at < ParseInt(u.expire)
        /\ gate.result = StatusUnauthorized

C11_SoftDeletedHasNoBlob ==
    \A key \in Keys :
        (Writers(key) = {} /\ key \in DOMAIN db
            /\ toRecord(db[key]).Deleted = SOFT) =>
              KeyToPath(key) \notin DOMAIN fs

(* The keys a list request is meant to return, in index order: those that  *)
(* have the prefix, are not below the start, and whose record is LIVE, or  *)
(* SOFT_DELETED when unlinked is asked for.                                *)
Matching(idx, prefix, start, unlinked) ==
    LET Wanted(k) ==
            /\ HasPrefix(k, prefix)
            /\ ~Less(k, start)
            /\ toRecord(idx[k]).Deleted = (IF unlinked THEN SOFT ELSE NO)
    IN  SelectSeq(Ordered(idx), Wanted)

Listed == page.kind = "list" /\ page.status = StatusOK

PageLimit == IF page.qlimit # <<>> /\ ParseIntOK(page.qlimit)
             THEN ParseInt(page.qlimit) ELSE 0

(* C12: a list response holds only keys whose record is LIVE when unlinked *)
(* is not set and only keys whose record is SOFT_DELETED when it is set;   *)
(* an unlinked listing without start or limit holds every SOFT_DELETED key *)
(* that has the prefix, and a normal listing holds none of them.           *)
C12_ListFiltersByTombstone ==
    Listed =>
        /\ \A i \in 1..Len(page.keys) :
              toRecord(db[page.keys[i]]).Deleted =
                  (IF page.unlinked THEN SOFT ELSE NO)
        /\ (page.unlinked /\ page.first /\ page.start = <<>>
                /\ page.qlimit = <<>>) =>
              \A k \in DOMAIN db :
                  (toRecord(db[k]).Deleted = SOFT /\ HasPrefix(k, page.prefix))
                      => \E i \in 1..Len(page.keys) : page.keys[i] = k

(* C13: on an unchanged store a list with limit n, 0 < n <= 1000, is       *)
(* answered 200 with the first n matching keys, has_more is true exactly   *)
(* when a further matching key exists, a cursor comes with has_more, and   *)
(* the pages of a cursor walk, put end to end, are the matching keys of    *)
(* the first request, each once.                                           *)
C13_PaginationWalk ==
    (page.kind = "list" /\ PageLimit > 0 /\ PageLimit <= MAX_QUERY_LIMIT) =>
        LET m   == Matching(db, page.prefix, page.start, page.unlinked)
            all == Matching(db, page.prefix, page.start0, page.unlinked)
        IN  /\ page.status = StatusOK
            /\ page.keys = SubSeq(m, 1, Min(PageLimit, Len(m)))
            /\ page.hasMore = (Len(m) > PageLimit)
            /\ page.hasMore => page.next # <<>>
            /\ ~page.hasMore => page.seen \o page.keys = all

(* C14: every key of a list response has the requested prefix and is not   *)
(* below the requested start, whatever the prefix and the start.           *)
C14_KeysHavePrefixAndStart ==
    Listed =>
        \A i \in 1..Len(page.keys) :
            /\ HasPrefix(page.keys[i], page.prefix)
            /\ ~Less(page.keys[i], page.start)

(* C15: the keys of every list response are in strictly ascending byte     *)
(* order, so none is repeated.                                             *)
C15_KeysStrictlyAscending ==
    Listed => Ascending(page.keys)

(* A response with at least three keys, from the index that holds the four *)
(* short keys, all LIVE.                                                   *)
C15_Witness ==
    /\ Listed /\ Len(page.keys) >= 3
    /\ db = IndexOf([k \in SmallKeys |-> "live"])

(* C16: no list response holds more than MAX_QUERY_LIMIT keys; a limit     *)
(* above MAX_QUERY_LIMIT is served as MAX_QUERY_LIMIT; a request without   *)
(* limit that matches more than MAX_QUERY_LIMIT keys is answered 413.      *)
C16_AtMostMaxKeys ==
    (page.kind = "list" /\ page.status # StatusBadRequest) =>
        LET m == Matching(db, page.prefix, page.start, page.unlinked)
        IN  /\ Len(page.keys) <= MAX_QUERY_LIMIT
            /\ PageLimit > MAX_QUERY_LIMIT =>
                  /\ page.status = StatusOK
                  /\ page.keys = SubSeq(m, 1, Min(MAX_QUERY_LIMIT, Len(m)))
            /\ (PageLimit = 0 /\ Len(m) > MAX_QUERY_LIMIT) =>
                  page.status = StatusRequestEntityTooLarge

(* C17: a PUT of an allowed type whose body is exactly max_size bytes, and *)
(* that meets no conflict, broken stream or I/O error, is answered 201;    *)
(* one of max_size + 1 bytes that meets no conflict is answered 413.       *)
C17_ExactMaxAccepted ==
    \A r \in Reqs :
        (req[r].m = "PUT" /\ Answering(r) /\ validType(req[r].body)
            /\ req[r].status \notin {StatusConflict, StatusBadRequest,
                                     StatusInternalServerError}) =>
              /\ Len(req[r].body) = maxFileSize =>
                    req[r].status = StatusCreated
              /\ Len(req[r].body) = maxFileSize + 1 =>
                    req[r].status = StatusRequestEntityTooLarge

(* C18: a request that carries x-signature and an x-expire equal to the    *)
(* current time in milliseconds is answered 401.                           *)
C18_ExpiryInstantRejected ==
    (gate.kind = "access" /\ gate.signature # <<>> /\ gate.expireAt # <<>>
        /\ ParseIntOK(gate.expireAt) /\ gate.at = ParseInt(gate.expireAt)) =>
          gate.result = StatusUnauthorized

(* C19: with the soft-delete policy on, a DELETE without unlink that finds *)
(* a LIVE record (and is not turned away with 409) is answered 403, and    *)
(* the key's record and blob file are then what they were when it arrived. *)
C19_SoftDeletePolicyForbids ==
    \A r \in Reqs :
        (req[r].m = "DELETE" /\ ~req[r].unlink /\ Answering(r) /\ softDelete
            /\ req[r].status # StatusConflict
            /\ req[r].hadRec /\ toRecord(req[r].pre).Deleted = NO) =>
              /\ req[r].status = StatusForbidden
              /\ req[r].k \in DOMAIN db /\ db[req[r].k] = req[r].pre
              /\ req[r].hadFile = (KeyToPath(req[r].k) \in DOMAIN fs)
              /\ req[r].hadFile => fs[KeyToPath(req[r].k)] = req[r].preFile

(* A plain DELETE of a stored key has been answered under the policy. *)
C19_Witness ==
    \E r \in Reqs :
        /\ req[r].m = "DELETE" /\ ~req[r].unlink /\ req[r].pc = "done"
        /\ softDelete /\ req[r].status = StatusForbidden
        /\ req[r].hadFile /\ req[r].preFile = Body(2)

(* C20: for every legal record (tombstone NO or SOFT, hash empty or 32 hex *)
(* characters), fromRecord returns no error and toRecord of the bytes it   *)
(* returns is the record itself.                                           *)
C20_CodecRoundTrip ==
    (codec.kind = "encode" /\ LegalRecord(codec.rec)) =>
        /\ ~codec.err
        /\ codec.back = codec.rec

(* A soft-deleted record with a hash has gone through the codec. *)
C20_Witness ==
    /\ codec.kind = "encode" /\ LegalRecord(codec.rec)
    /\ codec.rec.Deleted = SOFT /\ Len(codec.rec.Hash) = HashLen
    /\ codec.data = DELETED \o HASH \o codec.rec.Hash

(* C22: for every secret and every message that does not begin with "/",   *)
(* Sign of the message behind one more "/" is Sign of the message, and     *)
(* Sign of the message behind two more is not: one slash is stripped.      *)
C22_SignStripsOneSlash ==
    (signed.kind = "sign" /\ ~HasPrefix(signed.key, SLASH)) =>
        /\ signed.slashed = signed.plain
        /\ signed.twice # signed.plain

(* A message with a separator and an inner slash has been signed. *)
C22_Witness ==
    /\ signed.kind = "sign" /\ signed.secret = SignSecret
    /\ signed.key = <<"a", "/", ":">>
    /\ signed.slashed = signed.plain

(* The record a key has in an index, HARD when it has none. *)
RecordIn(idx, key) ==
    IF key \in DOMAIN idx THEN toRecord(idx[key]) ELSE Record(HARD, <<>>)

FileIn(vol, path) == IF path \in DOMAIN vol THEN <<vol[path]>> ELSE <<>>

(* The position of a PUT in Write. *)
Stage(pc) ==
    CASE pc = "put" -> 1 [] pc = "mktemp" -> 2 [] pc = "sniff" -> 3
      [] pc = "copy" -> 4 [] pc = "sync" -> 5 [] pc = "rename" -> 6
      [] pc = "putrec" -> 7 [] pc = "unlock" -> 8 [] pc = "done" -> 9
      [] OTHER -> 0

(* One step of the PUT in slot r, seen on its key. *)
PutStepInOrder(r) ==
    LET key  == req[r].k
        fp   == KeyToPath(key)
        tmp  == TmpName(r, key)
        pc   == req[r].pc
        pc2  == req'[r].pc
        rec  == RecordIn(db, key)
        rec2 == RecordIn(db', key)
    IN  (req[r].m = "PUT" /\ Stage(pc) \in 1..8) =>
          \* the steps follow one another, or the PUT gives up
          /\ pc2 # pc => (Stage(pc2) = Stage(pc) + 1 \/ pc2 = "unlock")
          \* the record changes at the reservation, at the end, or on failure
          /\ rec2 # rec =>
                \/ /\ pc = "put" /\ pc2 = "mktemp"
                   /\ rec.Deleted = HARD /\ rec2 = Record(SOFT, <<>>)
                \/ /\ pc = "putrec" /\ pc2 = "unlock"
                   /\ req'[r].status = StatusCreated
                   /\ rec2 = Record(NO, Md5Hex(req[r].body))
                \/ /\ pc2 = "unlock" /\ req'[r].status # StatusCreated
                   /\ req[r].recordNotFound /\ rec2.Deleted = HARD
          \* a reservation is taken exactly when the key has no record
          /\ (pc = "put" /\ pc2 = "mktemp") =>
                (rec.Deleted = HARD <=> rec2 # rec)
          \* the body is in the temp file before the fsync
          /\ (pc = "copy" /\ pc2 = "sync") =>
                FileIn(fs', tmp) = <<req[r].body>>
          \* the final path changes at the rename only, to the synced body
          /\ FileIn(fs', fp) # FileIn(fs, fp) =>
                /\ pc = "rename" /\ pc2 = "putrec"
                /\ FileIn(fs, tmp) = <<req[r].body>>
                /\ FileIn(fs', fp) = <<req[r].body>>
          \* the LIVE record is written over the renamed file
          /\ (rec2 # rec /\ rec2.Deleted = NO) =>
                FileIn(fs, fp) = <<req[r].body>>
          \* 201 is returned once the LIVE record is in the index
          /\ (pc # "unlock" /\ pc2 = "unlock"
                  /\ req'[r].status = StatusCreated) =>
                /\ pc = "putrec"
                /\ rec2 = Record(NO, Md5Hex(req[r].body))
          \* the lock is released last
          /\ (key \in lock /\ key \notin lock') =>
                pc = "unlock" /\ pc2 = "done" /\ req[r].status # 0

(* C23: within every PUT the steps come in this order: the reservation     *)
(* (only when the key has no record), the body into the temp file, the     *)
(* fsync, the rename to the key's path, the LIVE record with the new hash, *)
(* the 201, the release of the lock; the LIVE record is never written      *)
(* before the rename and 201 never returned before the LIVE record.        *)
C23_PutStepsInOrder ==
    [][\A r \in Reqs : PutStepInOrder(r)]_vars

(* A PUT on a key without a record has gone through every step. *)
C23_Witness ==
    \E r \in Reqs :
        /\ req[r].m = "PUT" /\ req[r].pc = "done"
        /\ req[r].status = StatusCreated /\ req[r].recordNotFound
        /\ req[r].k \notin lock

(* A PUT that found no record for its key and has not yet written the LIVE *)
(* record.                                                                 *)
FirstPutInFlight(key) ==
    \E q \in Writers(key) :
        /\ req[q].m = "PUT" /\ Stage(req[q].pc) \in 1..7
        /\ IF req[q].pc = "put" THEN key \notin DOMAIN db
           ELSE req[q].recordNotFound

(* A read answers while a writer of its key is, or has been, in flight. *)
ReadOverlapped(r) ==
    /\ IsRead(r) /\ req[r].pc = "done"
    /\ req[r].behind

(* C24: a GET or HEAD that overlaps a PUT or DELETE on its key is not      *)
(* answered 409; the body of a GET answered 200 is, whole, the body of the *)
(* last PUT answered 201 before the GET began or the body of a PUT that    *)
(* was in flight during the GET; and a read that looks the record up while *)
(* the first PUT of a key without a record is in flight is answered 404.   *)
C24_ReadsNeverBlockedNorTorn ==
    /\ [](\A r \in Reqs :
            /\ IsRead(r) => req[r].status # StatusConflict
            /\ (ReadOverlapped(r) /\ req[r].m = "GET"
                    /\ req[r].status = StatusOK) =>
                  req[r].rbody \in req[r].may)
    /\ [][\A r \in Reqs :
            (IsRead(r) /\ req[r].pc = "get_rec" /\ req'[r].pc # "get_rec"
                /\ FirstPutInFlight(req[r].k)) =>
                  (req'[r].pc = "done" /\ req'[r].status = StatusNotFound)]_vars

(* C25: every GET answered 200 carries a Content-Md5 header equal to the   *)
(* MD5 of the body it returns, also when a PUT overwrites the key while    *)
(* the GET is served.                                                      *)
C25_ContentMd5MatchesBody ==
    \A r \in Reqs :
        (req[r].m = "GET" /\ req[r].pc = "done" /\ req[r].status = StatusOK) =>
            req[r].rmd5 = Md5Hex(req[r].rbody)

(* C26: a PUT or DELETE that took its key's lock has given it back when it *)
(* ends, whatever the status it ends with; so a key no PUT or DELETE is    *)
(* working on is not in the locked set, and a PUT or DELETE that arrives   *)
(* then is not answered 409.                                               *)
C26_LockAlwaysReleased ==
    /\ [](\A r \in Reqs :
            /\ (IsWrite(r) /\ req[r].pc = "done"
                    /\ req[r].status # StatusConflict) =>
                  (req[r].k \notin lock \/ Writers(req[r].k) # {})
            /\ (IsWrite(r) /\ req[r].pc # "idle" /\ ~req[r].behind) =>
                  req[r].status # StatusConflict)
    /\ [](\A key \in lock : Writers(key) # {})
    /\ [][\A r \in Reqs :
            (IsWrite(r) /\ req[r].pc \notin {"idle", "done"}
                /\ req'[r].pc = "done") =>
                  (req[r].pc = "unlock" /\ req[r].k \notin lock')]_vars

(* A PUT that failed with 500 after it had the lock has ended, and its key *)
(* is free.                                                                *)
C26_Witness ==
    \E r \in Reqs :
        /\ req[r].m = "PUT" /\ req[r].pc = "done"
        /\ req[r].status = StatusInternalServerError
        /\ req[r].k \notin lock

(* The record of a key changes in this step by one of the transitions of   *)
(* the lifecycle, made by the request that is named as its cause; the      *)
(* tombstone of a LIVE record is set by a DELETE with unlink only          *)
(* (strict), or by any DELETE.                                             *)
RecordStepAllowed(key, strict) ==
    LET rec  == RecordIn(db, key)
        rec2 == RecordIn(db', key)
    IN  rec2 # rec =>
          \E r \in Writers(key) :
            /\ req'[r] # req[r]
            /\ \/ /\ req[r].m = "PUT"
                  /\ rec.Deleted = HARD /\ rec2 = Record(SOFT, <<>>)
               \/ /\ req[r].m = "PUT" /\ req[r].recordNotFound
                  /\ req'[r].status \notin {0, StatusCreated}
                  /\ rec = Record(SOFT, <<>>) /\ rec2.Deleted = HARD
               \/ /\ req[r].m = "PUT" /\ req'[r].status = StatusCreated
                  /\ rec.Deleted # HARD
                  /\ rec2 = Record(NO, Md5Hex(req[r].body))
               \/ /\ req[r].m = "DELETE" /\ (strict => req[r].unlink)
                  /\ rec.Deleted = NO /\ rec2 = Record(SOFT, rec.Hash)
               \/ /\ req[r].m = "DELETE" /\ ~req[r].unlink
                  /\ rec.Deleted # HARD /\ rec2.Deleted = HARD

(* A step of a GET or HEAD changes no record, and a PUT or DELETE answered *)
(* 403, 404, 409, 411, 413 or 415 leaves its key's record as it found it.  *)
RecordsKeptByOthers ==
    /\ [][(\E r \in Reqs : IsRead(r) /\ req'[r].pc # req[r].pc) => db' = db]_vars
    /\ [](\A r \in Reqs :
            (IsWrite(r) /\ Answering(r)
                /\ req[r].status \in
                     {StatusForbidden, StatusNotFound, StatusConflict,
                      StatusLengthRequired, StatusRequestEntityTooLarge,
                      StatusUnsupportedMediaType}) =>
                  /\ req[r].hadRec = (req[r].k \in DOMAIN db)
                  /\ req[r].pre = DbGet(req[r].k).data)

C28_NoBlobWithoutRecord ==
    \A key \in Keys :
        (Writers(key) = {} /\ KeyToPath(key) \in DOMAIN fs) =>
            key \in DOMAIN db

(* C29: a DELETE answered 404, 403 or 500 leaves its key's record and blob *)
(* file exactly as they were when it arrived.                              *)
C29_FailedDeleteChangesNothing ==
    \A r \in Reqs :
        (req[r].m = "DELETE" /\ Answering(r)
            /\ req[r].status \in {StatusNotFound, StatusForbidden,
                                  StatusInternalServerError}) =>
              /\ req[r].hadRec = (req[r].k \in DOMAIN db)
              /\ req[r].pre = DbGet(req[r].k).data
              /\ req[r].hadFile = (KeyToPath(req[r].k) \in DOMAIN fs)
              /\ req[r].hadFile => fs[KeyToPath(req[r].k)] = req[r].preFile

(* C30: a DELETE with unlink on a LIVE key, once answered 204, has left    *)
(* the record SOFT_DELETED with the content hash it had, and the blob file *)
(* on disk with the bytes it had.                                          *)
C30_UnlinkKeepsHashAndBlob ==
    \A r \in Reqs :
        (req[r].m = "DELETE" /\ req[r].unlink /\ Answering(r)
            /\ req[r].hadRec /\ toRecord(req[r].pre).Deleted = NO
            /\ req[r].status # StatusConflict) =>
              /\ req[r].status \in {StatusNoContent, StatusInternalServerError}
              /\ req[r].status = StatusNoContent =>
                    RecordIn(db, req[r].k) =
                        Record(SOFT, toRecord(req[r].pre).Hash)
              /\ req[r].hadFile = (KeyToPath(req[r].k) \in DOMAIN fs)
              /\ req[r].hadFile => fs[KeyToPath(req[r].k)] = req[r].preFile

(* A stored key has been unlinked; its blob is still there. *)
C30_Witness ==
    \E r \in Reqs :
        /\ req[r].m = "DELETE" /\ req[r].unlink /\ req[r].pc = "done"
        /\ req[r].status = StatusNoContent
        /\ req[r].hadFile /\ req[r].preFile = Body(2)
        /\ fs[KeyToPath(req[r].k)] = Body(2)
        /\ toRecord(req[r].pre) = Record(NO, Md5Hex(Body(2)))

-----------------------------------------------------------------------------
(* The bytes fromRecord produces for some record: an optional "DELETED",   *)
(* then nothing or "HASH" and 32 hex characters.                           *)
WellFormedEncoding(data) ==
    LET ss == IF HasPrefix(data, DELETED) THEN SubSeq(data, 8, Len(data))
              ELSE data
    IN  \/ ss = <<>>
        \/ /\ HasPrefix(ss, HASH)
           /\ Len(ss) = 36
           /\ \A i \in 5..36 : ss[i] \in HexDigits

(* C37: decode never fails, whatever the bytes, and bytes that are not a   *)
(* well-formed encoding (an unknown prefix, or "HASH" not followed by 32   *)
(* hex characters) decode to the record with the empty hash and the LIVE   *)
(* tombstone.                                                              *)
C37_DecodeNeverFails ==
    codec.kind = "decode" =>
        /\ ~codec.err
        /\ ~WellFormedEncoding(codec.data) => codec.back = Record(NO, <<>>)

-----------------------------------------------------------------------------
(* C39: GetRecord reports HARD (absent) exactly when the index holds no    *)
(* record for the key, and a read that failed with an error other than     *)
(* not-found is never reported as a LIVE record.                           *)
C39_AbsentIffNoRecord ==
    codec.kind = "lookup" =>
        /\ (codec.back.Deleted = HARD) <=> (codec.rec.Deleted = HARD)
        /\ codec.err => codec.back.Deleted # NO

-----------------------------------------------------------------------------
(* C32: a signature minted for one blob-store request does not authorize a *)
(* different one: once the minted URL has been used, a request without an  *)
(* API key that carries the same path, x-signature and x-expire is         *)
(* admitted only with the method of that use and with the query            *)
(* parameters of the minted URL.                                           *)
C32_SignatureBindsMethodAndQuery ==
    \A u \in BlobMinted :
        (gate.kind = "access" /\ gate.apiKey = <<>> /\ u.method # ""
            /\ gate.path = u.path /\ gate.signature = u.signature
            /\ gate.expireAt = u.expire /\ gate.result = 0) =>
              gate.method = u.method /\ gate.query = u.query

-----------------------------------------------------------------------------
-----------------------------------------------------------------------------
(* Matching keys that the page of a list response leaves out. *)
KeysRemain ==
    LET m == Matching(db, page.prefix, page.start, page.unlinked)
    IN  \E i \in 1..Len(m) : \A j \in 1..Len(page.keys) : page.keys[j] # m[i]

(* The gate admits the next_page URL without an API key at instant t. *)
NextPageAdmitted(t) ==
    VerifyAccess(secretKey, SignSecret, page.nextPath, <<>>, page.nextPage,
                 page.nextExpire, t) = 0

(* C33: a list request with a limit of 1 to 1000 is answered 200; whenever *)
(* matching keys remain after the page of a 200 response, has_more is true *)
(* and next_page is a non-empty signed URL of the list endpoint that the   *)
(* gate admits without an API key from now until its expiry; when no       *)
(* matching keys remain, has_more is false and next_page is empty.         *)
C33_NextPageWhenKeysRemain ==
    /\ (page.kind = "list" /\ PageLimit > 0 /\ PageLimit <= MAX_QUERY_LIMIT) =>
            page.status = StatusOK
    /\ Listed =>
        /\ KeysRemain =>
              /\ page.hasMore /\ page.nextPage # <<>>
              /\ page.nextPath = basePath
              /\ ParseIntOK(page.nextExpire)
              /\ \A t \in {now, ParseInt(page.nextExpire) - 1} :
                    NextPageAdmitted(t)
        /\ ~KeysRemain => ~page.hasMore /\ page.nextPage = <<>>

(* The same for listings the known faults of the filter and of the range   *)
(* do not touch: unlinked not set, and the start not below the prefix.     *)
C33_OnPlainListings ==
    (~page.unlinked /\ (page.start = <<>> \/ HasPrefix(page.start, page.prefix)))
        => C33_NextPageWhenKeysRemain

-----------------------------------------------------------------------------
(* The image of a response names a blob key. *)
ServedBlob ==
    /\ Served
    /\ BlobPathAnyRecord(serve.last.image).ok

(* C34: a /serve request with a blob source gets bytes from the blob store *)
(* only if the key's record is LIVE when the source is resolved; for a     *)
(* SOFT_DELETED or absent key the loader yields no bytes and reports the   *)
(* source as not found.                                                    *)
C34_BlobLoaderServesLiveOnly ==
    (ServedBlob /\ ~serve.last.cached) =>
        /\ serve.last.err = "nil" => serve.last.rec.Deleted = NO
        /\ serve.last.rec.Deleted # NO =>
              serve.last.src = <<>> /\ serve.last.err = "ErrNotFound"

-----------------------------------------------------------------------------
(* C31: once a DELETE of a key was answered 204, no /serve request with    *)
(* that blob as source is answered with a result made of the deleted       *)
(* bytes, and once an overwriting PUT was answered 201, none is answered   *)
(* with a result made of the old bytes, result cache or not: every result  *)
(* is made of the bytes the last PUT stored, and there is none after a     *)
(* DELETE.                                                                 *)
C31_NoStaleResultAfterWrite ==
    (ServedBlob /\ serve.last.err = "nil") =>
        /\ hist[ImageKey(serve.last.image)].last = "put"
        /\ serve.last.src = hist[ImageKey(serve.last.image)].body

(* The same for the responses that did not come from the result cache. *)
C31_OnCacheMisses ==
    ~serve.last.cached => C31_NoStaleResultAfterWrite

-----------------------------------------------------------------------------
(* The HTTP loader's allow-list and its HEAD gate.                         *)

Matched(host) == SourceMatch(AllowedSources, host)
GetSent == \E q \in fetch.sent : q.method = "GET"
HeadDone == fetch.max > 0 /\ fetch.headStatus # 0

(* C35: the HTTP loader sends no request to a host that no pattern of the  *)
(* configured allow-list matches, and it follows a redirect only if the    *)
(* target is matched by the allow-list and fewer than 10 redirects have    *)
(* been followed.                                                          *)
C35_OnlyAllowedHosts ==
    /\ \A q \in fetch.sent : Matched(q.host)
    /\ fetch.followed > 0 => Matched(fetch.target)
    /\ fetch.followed <= MaxRedirects

(* The same with at least one pattern in the allow-list. *)
C35_WithPatterns == Len(AllowedSources) > 0 => C35_OnlyAllowedHosts

(* C40: with a maximum source size configured, a final HEAD response with  *)
(* a status outside 200-206 fails the load with the error for that status, *)
(* one with a Content-Length above the cap fails it as too large, and in   *)
(* both cases no GET request is sent.                                      *)
C40_HeadGatesDownload ==
    HeadDone =>
        /\ headStatusOutside(fetch.headStatus) =>
              fetch.err = "ErrStatus" /\ ~GetSent
        /\ (~headStatusOutside(fetch.headStatus) /\ fetch.headLen > fetch.max) =>
              fetch.err = "ErrMaxSizeExceeded" /\ ~GetSent

(* The size half alone, whatever the status. *)
C40_SizeGate ==
    (HeadDone /\ fetch.headLen > fetch.max) =>
        fetch.err = "ErrMaxSizeExceeded" /\ ~GetSent

-----------------------------------------------------------------------------
(* C38: once the abort callback was invoked for a file whose status was    *)
(* idle, queued or uploading, no PUT request for the file is sent, its     *)
(* status stays aborted and neither onSuccess nor onError is called; and   *)
(* the abort callback leaves a file in success or error unchanged.         *)
C38_AbortIsFinal ==
    /\ [](upload.cut =>
            /\ upload.status = "aborted"
            /\ ~upload.putAfter
            /\ ~upload.calledAfter)
    /\ [][(upload'.aborts # upload.aborts
            /\ upload.status \in TerminalStatuses) =>
              upload' = [upload EXCEPT !.aborts = upload.aborts + 1]]_vars

(* What holds of it: after such an abort the file never gets to success,   *)
(* and the abort callback leaves success and error alone.                  *)
C38_NeverSuccessAfterAbort ==
    /\ [](upload.cut => upload.status # "success")
    /\ [][(upload'.aborts # upload.aborts
            /\ upload.status \in TerminalStatuses) =>
              upload' = [upload EXCEPT !.aborts = upload.aborts + 1]]_vars

(* An abort that finds the request in flight, made before the signal was   *)
(* aborted, ends the call with the status aborted.                         *)
C38_AbortInFlight ==
    [][(upload'.aborts # upload.aborts /\ ~upload.aborted
         /\ upload.pc = "inflight") =>
           (upload'.status = "aborted" /\ upload'.pc = "returned")]_vars

====
